---- MODULE Spec2Model ----
(***************************************************************************)
(* A model of honeybee-3dm: the conversion of a Rhino 3dm scene (layers    *)
(* and objects) into Honeybee faces, shades, apertures and doors.          *)
(*                                                                         *)
(* Four state machines share the variables below:                          *)
(*   SpecGeom   - togeometry.py: to_face3d on one Rhino geometry           *)
(*   SpecMesh   - togeometry.py: mesh_to_face3d on one Rhino mesh          *)
(*   SpecLayer  - layer.py / helper.py: the layer resolver on one scene    *)
(*   SpecImport - face.py / model.py: import_faces run twice, object by    *)
(*                object, and import_3dm                                   *)
(*                                                                         *)
(* Points are pairs of integers (the planar case; z is constant), so that  *)
(* "equal" and "equal within the tolerance" are different relations.       *)
(* Library calls whose code is outside the repository (rhino3dm's GetMesh, *)
(* IsPlanar, IsLinear; ladybug_geometry's Polyline3D.join_segments and     *)
(* Polyface3D.naked_edges) are inputs: the geometry records carry their    *)
(* results.                                                                *)
(***************************************************************************)
EXTENDS Integers, Sequences, FiniteSets, TLC

VARIABLES
    rh_geo,      \* SpecGeom: the geometry handed to to_face3d, its tolerance and flag
    lb_face,     \* SpecGeom: what to_face3d returned or raised ("pending" before)
    file_3dm,    \* SpecLayer, SpecImport: the scene: Layers and Objects
    query,       \* SpecLayer: the resolver call being made
    answer,      \* SpecLayer: what the resolver returned or raised
    config,      \* SpecImport: the config argument of the run
    args,        \* SpecImport: the other arguments: visibility, tolerance
    cursor,      \* SpecImport: the position of the run in the layer and object loops
    hb_lists,    \* SpecImport: hb_faces, hb_shades, hb_apertures, hb_doors so far
    first_run,   \* SpecImport: the lists the first run returned
    hb_model     \* SpecImport: the Model import_3dm returned

vars == <<rh_geo, lb_face, file_3dm, query, answer, config, args, cursor, hb_lists,
          first_run, hb_model>>

(***************************************************************************)
(* Bounds of the model.                                                    *)
(***************************************************************************)
GridMax == 5        \* coordinates are 0..GridMax
MaxTol == 1         \* tolerances are 0..MaxTol
MaxLoops == 2       \* items join_segments may return for one Brep
MaxMeshFaces == 2   \* faces of a free-standing mesh
MaxBrepFaces == 2   \* faces of a multi-face or solid Brep
MaxLayers == 4      \* layers of a scene of the layer resolver
MaxObjects == 2     \* objects of a scene of an import
MaxStreams == 2     \* sequences of uuid4 draws a run may see
MaxVerts == 4       \* vertices of a list given to remove_dup_vertices

(***************************************************************************)
(* Sequence helpers.                                                       *)
(***************************************************************************)
Abs(x) == IF x < 0 THEN -x ELSE x

Min(a, b) == IF a < b THEN a ELSE b

RECURSIVE SelectIdxFrom(_, _, _)
SelectIdxFrom(s, K, i) ==
    IF i > Len(s) THEN <<>>
    ELSE (IF i \in K THEN <<s[i]>> ELSE <<>>) \o SelectIdxFrom(s, K, i + 1)

\* The sub-sequence of s at the indices in K, in order.
SelectIdx(s, K) == SelectIdxFrom(s, K, 1)

RECURSIVE Flatten(_)
Flatten(ss) == IF ss = <<>> THEN <<>> ELSE Head(ss) \o Flatten(Tail(ss))

Range(s) == {s[i] : i \in 1..Len(s)}

\* All sequences over S of length lo..hi.
SeqsOf(S, lo, hi) == UNION {[1..n -> S] : n \in lo..hi}

(***************************************************************************)
(* ladybug_geometry values.                                                *)
(***************************************************************************)
\* Point3D.is_equivalent: every coordinate differs by at most the tolerance.
is_equivalent(p, q, tolerance) ==
    Abs(p[1] - q[1]) <= tolerance /\ Abs(p[2] - q[2]) <= tolerance

\* Face3D(boundary, holes=...): the loops are kept as given.
Face3D(boundary, holes) == [boundary |-> boundary, holes |-> holes]

\* Twice the signed area of a loop (shoelace), and Face3D(...).area's rank.
RECURSIVE Shoelace(_, _)
Shoelace(v, i) ==
    IF i > Len(v) THEN 0
    ELSE LET j == IF i = Len(v) THEN 1 ELSE i + 1
         IN  v[i][1] * v[j][2] - v[j][1] * v[i][2] + Shoelace(v, i + 1)

area(vertices) == Abs(Shoelace(vertices, 1))

\* What join_segments returns: Polyline3D (3 vertices or more) and LineSegment3D.
Polyline3D(vertices) == [kind |-> "Polyline3D", vertices |-> vertices]

LineSegment3D(p1, p2) == [kind |-> "LineSegment3D", vertices |-> <<p1, p2>>]

isinstance_Polyline3D(item) == item.kind = "Polyline3D"

(***************************************************************************)
(* togeometry.py                                                           *)
(***************************************************************************)
\* What a conversion returns: the Face3Ds, or the exception it raised; path
\* names the return statement taken, warned the warnings issued.
Returned(faces, path, warned) ==
    [raised |-> "none", faces |-> faces, path |-> path, warned |-> warned]

Raised(exc, path) ==
    [raised |-> exc, faces |-> <<>>, path |-> path, warned |-> {}]

\* A deduplication that never compares the first vertex with the last.
remove_dup_vertices_NoWrap(vertices, tolerance) ==
    SelectIdx(vertices, {i \in 1..Len(vertices) :
        i = 1 \/ ~is_equivalent(vertices[i], vertices[i - 1], tolerance)})

\* [pt for i, pt in enumerate(vertices) if not pt.is_equivalent(vertices[i - 1])]
\* (vertices[-1] is the last vertex)
remove_dup_vertices(vertices, tolerance) ==
    SelectIdx(vertices, {i \in 1..Len(vertices) :
        ~is_equivalent(vertices[i],
                       vertices[IF i = 1 THEN Len(vertices) ELSE i - 1],
                       tolerance)})

mesh_face_verts_AlwaysThree(pts, face) ==
    <<pts[face[1]], pts[face[2]], pts[face[3]]>>

\* The vertices of one mesh face: 4 when the face tuple has 4 indices, else 3.
mesh_face_verts(pts, face) ==
    IF Len(face) = 4
    THEN <<pts[face[1]], pts[face[2]], pts[face[3]], pts[face[4]]>>
    ELSE <<pts[face[1]], pts[face[2]], pts[face[3]]>>

\* mesh_to_face3d: None for a mesh (GetMesh found none) raises AttributeError.
mesh_to_face3d(mesh) ==
    IF ~mesh.ok THEN Raised("AttributeError", "mesh_to_face3d")
    ELSE Returned([j \in 1..Len(mesh.Faces) |->
                      Face3D(mesh_face_verts(mesh.Vertices, mesh.Faces[j]), <<>>)],
                  "mesh_to_face3d", {})

\* The stitched boundary of a list of mesh faces: Polyface3D.from_faces,
\* naked_edges, join_segments, Face3D(polylines[0].vertices). The polyface
\* results are the mesh's (an input); an empty join raises IndexError.
stitched_face3d(mesh, path) ==
    IF ~mesh.polyface_ok THEN Raised("ValueError", path)
    ELSE IF mesh.naked_joined = <<>> THEN Raised("IndexError", path)
    \* Face3D asserts that it is given 3 vertices or more
    ELSE IF Len(mesh.naked_joined[1].vertices) < 3 THEN Raised("AssertionError", path)
    ELSE Returned(<<Face3D(mesh.naked_joined[1].vertices, <<>>)>>, path, {})

\* brep_to_meshed_face3d, as its caller wraps it: [brep_to_meshed_face3d(brep)].
\* Called for a single-face Brep only, so the faces are those of Faces[0]'s mesh.
brep_to_meshed_face3d(brep, path) ==
    LET m == mesh_to_face3d(brep.Faces[1].mesh)
    IN  IF m.raised # "none" THEN m
        ELSE stitched_face3d(brep.Faces[1].mesh, path)

RECURSIVE concat_results(_, _, _)
\* faces.extend(f(x)) over a list: the first exception ends the loop.
concat_results(results, path, warned) ==
    IF results = <<>> THEN Returned(<<>>, path, warned)
    ELSE IF Head(results).raised # "none" THEN Head(results)
    ELSE LET rest == concat_results(Tail(results), path, warned)
         IN  IF rest.raised # "none" THEN rest
             ELSE Returned(Head(results).faces \o rest.faces, path, warned)

\* brep_to_mesh_to_face3d: the mesh faces of every face of the Brep.
brep_to_mesh_to_face3d(brep, warned) ==
    concat_results([i \in 1..Len(brep.Faces) |-> mesh_to_face3d(brep.Faces[i].mesh)],
                   "mesh_fallback", warned)

\* dict(zip(polylines, polyline_areas)) as the list of its items: zip stops at
\* the shorter list, a key met again keeps its place and takes the later value.
RECURSIVE dict_zip(_, _, _)
dict_zip(keys, values, i) ==
    IF i > Min(Len(keys), Len(values)) THEN <<>>
    ELSE LET later == {j \in (i + 1)..Min(Len(keys), Len(values)) : keys[j] = keys[i]}
             earlier == {j \in 1..(i - 1) : keys[j] = keys[i]}
             last == IF later = {} THEN i
                     ELSE CHOOSE j \in later : \A k \in later : k <= j
         IN  (IF earlier = {} THEN <<<<keys[i], values[last]>>>> ELSE <<>>)
             \o dict_zip(keys, values, i + 1)

\* sorted(items, key=lambda x: x[1], reverse=True): stable, largest first.
RECURSIVE sorted_by_value_desc(_)
sorted_by_value_desc(items) ==
    IF items = <<>> THEN <<>>
    ELSE LET best == CHOOSE i \in 1..Len(items) :
                        /\ \A j \in 1..Len(items) : items[j][2] <= items[i][2]
                        /\ \A j \in 1..(i - 1) : items[j][2] < items[i][2]
         IN  <<items[best]>>
             \o sorted_by_value_desc(SelectIdx(items, (1..Len(items)) \ {best}))

\* The polylines of the dictionary in the order join_segments gave them.
sorted_polylines_Unranked(polylines) ==
    LET items == dict_zip(polylines, [i \in 1..Len(polylines) |-> 0], 1)
    IN  [i \in 1..Len(items) |-> items[i][1]]

\* The polylines ranked by the area of the Face3D made of their vertices.
sorted_polylines(polylines) ==
    LET polyline_areas ==
            LET ps == SelectIdx(polylines,
                        {i \in 1..Len(polylines) : isinstance_Polyline3D(polylines[i])})
            IN  [i \in 1..Len(ps) |-> area(ps[i].vertices)]
        sorted_dict == sorted_by_value_desc(dict_zip(polylines, polyline_areas, 1))
    IN  [i \in 1..Len(sorted_dict) |-> sorted_dict[i][1]]

boundary_pts_of(polylines, tolerance) ==
    remove_dup_vertices(sorted_polylines(polylines)[1].vertices, tolerance)

hole_pts_of(polylines, tolerance) ==
    LET sp == sorted_polylines(polylines)
    IN  [k \in 1..(Len(sp) - 1) |-> remove_dup_vertices(sp[k + 1].vertices, tolerance)]

\* The hole vertices within the tolerance of a boundary vertex: the test the
\* specification describes, for comparison with the one the code makes below.
hole_pts_on_boundary_WithinTolerance(polylines, tolerance) ==
    SelectIdx(Flatten(hole_pts_of(polylines, tolerance)),
        {i \in 1..Len(Flatten(hole_pts_of(polylines, tolerance))) :
            \E b \in Range(boundary_pts_of(polylines, tolerance)) :
                is_equivalent(Flatten(hole_pts_of(polylines, tolerance))[i], b, tolerance)})

\* [pts for pts in total_hole_pts if pts in boundary_pts]: "in" is Point3D's
\* ==, the equality of the coordinates.
hole_pts_on_boundary(polylines, tolerance) ==
    LET total_hole_pts == Flatten(hole_pts_of(polylines, tolerance))
    IN  SelectIdx(total_hole_pts,
            {i \in 1..Len(total_hole_pts) :
                total_hole_pts[i] \in Range(boundary_pts_of(polylines, tolerance))})

\* brep_to_face3d without the shortcut for a mesh of 3 or 4 vertices.
brep_to_face3d_NoSimpleShortcut(brep, tolerance) ==
    LET mesh == brep.Faces[1].mesh
        polylines == brep.joined
    IN  IF ~mesh.ok THEN Raised("AttributeError", "no_mesh")
        ELSE IF brep.curved THEN brep_to_meshed_face3d(brep, "curved")
        ELSE IF Len(polylines) = 1
             THEN LET boundary_pts == remove_dup_vertices(polylines[1].vertices, tolerance)
                  IN  IF Len(boundary_pts) < 3 THEN Raised("ValueError", "one_polyline")
                      ELSE Returned(<<Face3D(boundary_pts, <<>>)>>, "one_polyline", {})
        ELSE IF Len(polylines) > 1
             THEN IF ~isinstance_Polyline3D(polylines[Len(polylines)])
                  THEN brep_to_mesh_to_face3d(brep, {})
                  ELSE IF Len(hole_pts_on_boundary(polylines, tolerance)) > 0
                       THEN brep_to_mesh_to_face3d(brep, {"holes touch the boundary"})
                       \* Face3D asserts 3 vertices or more, for every loop
                       ELSE IF \/ Len(boundary_pts_of(polylines, tolerance)) < 3
                               \/ \E k \in 1..Len(hole_pts_of(polylines, tolerance)) :
                                      Len(hole_pts_of(polylines, tolerance)[k]) < 3
                       THEN Raised("AssertionError", "holes")
                       ELSE Returned(<<Face3D(boundary_pts_of(polylines, tolerance),
                                              hole_pts_of(polylines, tolerance))>>,
                                     "holes", {})
        \* join_segments returned nothing: the function falls off its end
        ELSE [raised |-> "none", faces |-> <<>>, path |-> "returns_None", warned |-> {}]

\* brep_to_face3d: a planar single-face Brep.
brep_to_face3d(brep, tolerance) ==
    LET mesh == brep.Faces[1].mesh
        polylines == brep.joined
    IN  IF ~mesh.ok THEN Raised("AttributeError", "no_mesh")
        ELSE IF brep.curved THEN brep_to_meshed_face3d(brep, "curved")
        ELSE IF Len(mesh.Vertices) = 4 \/ Len(mesh.Vertices) = 3
             THEN brep_to_meshed_face3d(brep, "simple")
        ELSE IF Len(polylines) = 1
             THEN LET boundary_pts == remove_dup_vertices(polylines[1].vertices, tolerance)
                  IN  IF Len(boundary_pts) < 3 THEN Raised("ValueError", "one_polyline")
                      ELSE Returned(<<Face3D(boundary_pts, <<>>)>>, "one_polyline", {})
        ELSE IF Len(polylines) > 1
             THEN IF ~isinstance_Polyline3D(polylines[Len(polylines)])
                  THEN brep_to_mesh_to_face3d(brep, {})
                  ELSE IF Len(hole_pts_on_boundary(polylines, tolerance)) > 0
                       THEN brep_to_mesh_to_face3d(brep, {"holes touch the boundary"})
                       \* Face3D asserts 3 vertices or more, for every loop
                       ELSE IF \/ Len(boundary_pts_of(polylines, tolerance)) < 3
                               \/ \E k \in 1..Len(hole_pts_of(polylines, tolerance)) :
                                      Len(hole_pts_of(polylines, tolerance)[k]) < 3
                       THEN Raised("AssertionError", "holes")
                       ELSE Returned(<<Face3D(boundary_pts_of(polylines, tolerance),
                                              hole_pts_of(polylines, tolerance))>>,
                                     "holes", {})
        \* join_segments returned nothing: the function falls off its end
        ELSE [raised |-> "none", faces |-> <<>>, path |-> "returns_None", warned |-> {}]

\* brepface_to_face3d: one face of a multi-face or non-planar Brep.
brepface_to_face3d(brepFace, tolerance) ==
    LET mesh == brepFace.mesh
        faces == mesh_to_face3d(mesh)
    IN  \* mesh.TopologyEdges of None raises AttributeError
        IF ~mesh.ok THEN Raised("AttributeError", "brepface")
        ELSE IF brepFace.topology_curved THEN stitched_face3d(mesh, "brepface_curved")
        ELSE IF Len(mesh.Vertices) = 4 \/ Len(mesh.Vertices) = 3
             THEN stitched_face3d(mesh, "brepface_simple")
        ELSE IF ~mesh.polyface_ok THEN Raised("ValueError", "brepface_last")
        ELSE IF \A i \in 1..Len(mesh.naked_joined) :
                    isinstance_Polyline3D(mesh.naked_joined[i])
             THEN stitched_face3d(mesh, "brepface_last")
             ELSE Returned(faces.faces, "brepface_mesh", {})

brep_to_brepface_to_face3d(brep, tolerance) ==
    concat_results([i \in 1..Len(brep.Faces) |->
                       brepface_to_face3d(brep.Faces[i], tolerance)],
                   "brepfaces", {})

\* A solid whose faces are all stitched, planar or not.
solid_face_to_face3d_AlwaysStitched(brep, i) ==
    LET mesh == brep.Faces[i].mesh
        faces == mesh_to_face3d(mesh)
    IN  IF faces.raised # "none" THEN faces
        ELSE IF ~mesh.polyface_ok THEN Raised("Exception", "solid")
        ELSE stitched_face3d(mesh, "solid")

\* solid_to_face3d: per face, its mesh faces when the surface is not planar,
\* the stitched boundary of its mesh when it is.
solid_face_to_face3d(brep, i) ==
    LET mesh == brep.Faces[i].mesh
        faces == mesh_to_face3d(mesh)
    IN  IF faces.raised # "none" THEN faces
        ELSE IF ~brep.Surfaces[i] THEN faces
        \* Polyface3D.from_faces is not guarded here: its exception propagates
        ELSE IF ~mesh.polyface_ok THEN Raised("Exception", "solid")
        ELSE stitched_face3d(mesh, "solid")

solid_to_face3d(brep, tolerance) ==
    concat_results([i \in 1..Len(brep.Faces) |-> solid_face_to_face3d(brep, i)],
                   "solid", {})

extrusion_to_face3d(extrusion) ==
    LET r == mesh_to_face3d(extrusion.mesh)
    IN  IF r.raised # "none" THEN r ELSE Returned(r.faces, "extrusion", {})

\* check_planarity: every surface of the Brep is planar.
check_planarity(brep, tolerance) ==
    \A i \in 1..Len(brep.Surfaces) : brep.Surfaces[i]

to_face3d_AlwaysWarns(geo, tolerance, raise_exception) ==
    IF geo.type = "Brep"
    THEN IF geo.IsSolid THEN solid_to_face3d(geo, tolerance)
         ELSE IF check_planarity(geo, tolerance) /\ Len(geo.Faces) = 1
              THEN brep_to_face3d(geo, tolerance)
              ELSE brep_to_brepface_to_face3d(geo, tolerance)
    ELSE IF geo.type = "Extrusion" THEN extrusion_to_face3d(geo)
    ELSE IF geo.type = "Mesh" THEN mesh_to_face3d(geo.mesh)
    ELSE Returned(<<>>, "unsupported", {"Unsupported object type"})

\* to_face3d: the dispatch on the type of obj.Geometry.
to_face3d(geo, tolerance, raise_exception) ==
    IF geo.type = "Brep"
    THEN IF geo.IsSolid THEN solid_to_face3d(geo, tolerance)
         ELSE IF check_planarity(geo, tolerance) /\ Len(geo.Faces) = 1
              THEN brep_to_face3d(geo, tolerance)
              ELSE brep_to_brepface_to_face3d(geo, tolerance)
    ELSE IF geo.type = "Extrusion" THEN extrusion_to_face3d(geo)
    ELSE IF geo.type = "Mesh" THEN mesh_to_face3d(geo.mesh)
    ELSE IF raise_exception THEN Raised("ValueError", "unsupported")
    ELSE Returned(<<>>, "unsupported", {"Unsupported object type"})

(***************************************************************************)
(* layer.py and helper.py: the layer resolver.                             *)
(*                                                                         *)
(* A layer is [Name, FullPath, Visible, Index]; FullPath is the sequence   *)
(* of the tokens of Rhino's path string, the names from the root to the    *)
(* layer with "::" between them. An object is [Id, LayerIndex, Visible,    *)
(* Name, Geometry].                                                        *)
(***************************************************************************)
\* layer.FullPath.split('::')
split(FullPath) == SelectSeq(FullPath, LAMBDA token : token # "::")

\* parent_child_layers (layer.py and helper.py alike): the names on the paths
\* of the layers, visible ones when the filter is on, whose path holds
\* layer_name; list(set(...)) leaves a set of names.
parent_child_layers(file, layer_name, layer_visibility) ==
    UNION {Range(split(file.Layers[i].FullPath)) : i \in
        {i \in 1..Len(file.Layers) :
            /\ layer_visibility => file.Layers[i].Visible
            /\ layer_name \in Range(split(file.Layers[i].FullPath))}}

\* [obj for obj in file_3dm.Objects for index in layer_index if ...]
RECURSIVE filter_objects_from(_, _, _, _)
filter_objects_from(file, layer_index, visible_only, i) ==
    IF i > Len(file.Objects) THEN <<>>
    ELSE LET obj == file.Objects[i]
             hits == SelectSeq(layer_index,
                        LAMBDA index : /\ obj.LayerIndex = index
                                       /\ visible_only => obj.Visible)
         IN  [k \in 1..Len(hits) |-> obj]
             \o filter_objects_from(file, layer_index, visible_only, i + 1)

\* layer.py's filter_objects_by_layer_index: visible objects only.
layer_filter_objects_by_layer_index(file, layer_index) ==
    filter_objects_from(file, layer_index, TRUE, 1)

\* helper.py's filter_objects_by_layer_index: hidden objects too.
helper_filter_objects_by_layer_index(file, layer_index) ==
    filter_objects_from(file, layer_index, FALSE, 1)

filter_objects_by_layer_index(module, file, layer_index) ==
    IF module = "layer" THEN layer_filter_objects_by_layer_index(file, layer_index)
    ELSE helper_filter_objects_by_layer_index(file, layer_index)

Answered(objects) == [raised |-> "none", objects |-> objects]

AnswerRaised(exc) == [raised |-> exc, objects |-> <<>>]

\* [layer.Index for layer in file_3dm.Layers if ...]
layer_indexes(layers) == [k \in 1..Len(layers) |-> layers[k].Index]

\* objects_on_parent_child (layer.py and helper.py alike, but for the filter
\* of the objects they call).
objects_on_parent_child(module, file, layer_name, layer_visibility) ==
    LET parent_child == parent_child_layers(file, layer_name, layer_visibility)
        layer_index ==
            layer_indexes(SelectSeq(file.Layers, LAMBDA layer :
                /\ layer.Name \in parent_child
                /\ layer_visibility => layer.Visible))
    IN  IF parent_child # {}
        THEN IF layer_index = <<>> THEN AnswerRaised("ValueError")
             ELSE Answered(filter_objects_by_layer_index(module, file, layer_index))
        ELSE Answered(<<>>)

\* objects_on_layer (layer.py and helper.py alike, but for the filter).
objects_on_layer(module, file, layer, layer_visibility) ==
    IF layer_visibility
    THEN IF layer.Visible
         THEN Answered(filter_objects_by_layer_index(module, file, <<layer.Index>>))
         ELSE Answered(<<>>)
    ELSE Answered(filter_objects_by_layer_index(module, file, <<layer.Index>>))

(***************************************************************************)
(* The geometries the conversions are run on.                              *)
(***************************************************************************)
Coords == 0..GridMax

Tolerances == 0..MaxTol

\* The square with corners (a, a) and (b, b), counter-clockwise from (a, a).
SquareVerts(a, b) == <<<<a, a>>, <<b, a>>, <<b, b>>, <<a, b>>>>

\* A closed loop as join_segments returns it: the first vertex closes it.
ClosedLoop(verts) == Polyline3D(verts \o <<verts[1]>>)

\* What join_segments may return among its items: closed squares, an open
\* chain of two segments, a segment left over.
LoopItems ==
    {ClosedLoop(SquareVerts(a, b)) : <<a, b>> \in {ab \in Coords \X Coords : ab[1] < ab[2]}}
    \cup {Polyline3D(<<<<0, 0>>, <<GridMax, 0>>, <<GridMax, GridMax>>>>),
          LineSegment3D(<<0, 0>>, <<0, GridMax>>)}

\* join_segments puts every segment into one item, so no item comes twice.
JoinedLists ==
    {items \in SeqsOf(LoopItems, 1, MaxLoops) :
        \A i, j \in 1..Len(items) : items[i] = items[j] => i = j}

\* A Rhino mesh with the results of the polyface calls made on its faces:
\* polyface_ok is whether Polyface3D.from_faces accepts them, naked_joined
\* is join_segments of the polyface's naked edges.
RhMesh(vertices, faces, polyface_ok, naked_joined) ==
    [ok |-> TRUE, Vertices |-> vertices, Faces |-> faces,
     polyface_ok |-> polyface_ok, naked_joined |-> naked_joined]

\* GetMesh returned None: the file holds no render mesh for the object.
NoMesh ==
    [ok |-> FALSE, Vertices |-> <<>>, Faces |-> <<>>,
     polyface_ok |-> FALSE, naked_joined |-> <<>>]

TriMesh ==
    RhMesh(<<<<0, 0>>, <<2, 0>>, <<2, 2>>>>, <<<<1, 2, 3>>>>, TRUE,
           <<ClosedLoop(<<<<0, 0>>, <<2, 0>>, <<2, 2>>>>)>>)

QuadMesh ==
    RhMesh(SquareVerts(0, 2), <<<<1, 2, 3>>, <<1, 3, 4>>>>, TRUE,
           <<ClosedLoop(SquareVerts(0, 2))>>)

\* A rectangle of two quads, six vertices.
StripVerts == <<<<0, 0>>, <<2, 0>>, <<4, 0>>, <<4, 4>>, <<2, 4>>, <<0, 4>>>>

StripMesh ==
    RhMesh(StripVerts, <<<<1, 2, 5, 6>>, <<2, 3, 4, 5>>>>, TRUE,
           <<ClosedLoop(StripVerts)>>)

\* The same faces where the naked edges do not join into one closed loop.
OpenStripMesh ==
    RhMesh(StripVerts, <<<<1, 2, 5, 6>>, <<2, 3, 4, 5>>>>, TRUE,
           <<Polyline3D(<<<<0, 0>>, <<2, 0>>, <<4, 0>>>>),
             LineSegment3D(<<4, 4>>, <<0, 4>>)>>)

\* The same faces where Polyface3D.from_faces raises.
BadStripMesh ==
    RhMesh(StripVerts, <<<<1, 2, 5, 6>>, <<2, 3, 4, 5>>>>, FALSE, <<>>)

\* A closed mesh has no naked edge.
ClosedMesh ==
    RhMesh(StripVerts, <<<<1, 2, 5, 6>>, <<2, 3, 4, 5>>>>, TRUE, <<>>)

\* A square with a square hole: a ring of four quads; its naked edges join
\* into the outer loop and the loop of the hole.
HoleMesh ==
    RhMesh(SquareVerts(0, 5) \o SquareVerts(1, 2),
           <<<<1, 2, 6, 5>>, <<2, 3, 7, 6>>, <<3, 4, 8, 7>>, <<4, 1, 5, 8>>>>, TRUE,
           <<ClosedLoop(SquareVerts(0, 5)), ClosedLoop(SquareVerts(1, 2))>>)

BrepMeshes == {NoMesh, TriMesh, QuadMesh, StripMesh, OpenStripMesh, BadStripMesh,
               ClosedMesh, HoleMesh}

BrepFace(mesh, topology_curved) == [mesh |-> mesh, topology_curved |-> topology_curved]

RhGeometry(type, IsSolid, Faces, Surfaces, curved, joined, mesh) ==
    [type |-> type, IsSolid |-> IsSolid, Faces |-> Faces, Surfaces |-> Surfaces,
     curved |-> curved, joined |-> joined, mesh |-> mesh]

\* A Brep: Faces, Surfaces (IsPlanar of each), curved (some edge is not
\* linear), joined (join_segments of the lines of its edges).
Brep(IsSolid, Faces, Surfaces, curved, joined) ==
    RhGeometry("Brep", IsSolid, Faces, Surfaces, curved, joined, NoMesh)

Extrusion(mesh) == RhGeometry("Extrusion", FALSE, <<>>, <<>>, FALSE, <<>>, mesh)

Mesh(mesh) == RhGeometry("Mesh", FALSE, <<>>, <<>>, FALSE, <<>>, mesh)

\* A curve, a point, an annotation: no Brep, Extrusion or Mesh.
OtherGeometry(type) == RhGeometry(type, FALSE, <<>>, <<>>, FALSE, <<>>, NoMesh)

OtherTypes == {"Curve", "Point", "TextDot"}

\* Planar single-face Breps on the analytic path: many vertices, linear edges.
AnalyticBreps ==
    {Brep(FALSE, <<BrepFace(StripMesh, FALSE)>>, <<TRUE>>, FALSE, joined) :
        joined \in JoinedLists}

\* Planar single-face Breps that are meshed: curved, or 3 or 4 mesh vertices,
\* or without a mesh.
MeshedBreps ==
    {Brep(FALSE, <<BrepFace(mesh, FALSE)>>, <<TRUE>>, curved,
          <<ClosedLoop(SquareVerts(0, 2))>>) :
        mesh \in BrepMeshes, curved \in BOOLEAN}

\* Breps of several faces, or of one face that is not planar; solid or not.
FacedBreps ==
    {Brep(IsSolid, [i \in 1..Len(fs) |-> BrepFace(fs[i][1], fs[i][3])],
          [i \in 1..Len(fs) |-> fs[i][2]], FALSE, <<>>) :
        IsSolid \in BOOLEAN,
        fs \in SeqsOf(BrepMeshes \X BOOLEAN \X BOOLEAN, 1, MaxBrepFaces)}

\* The index tuples of a mesh face over four vertices, listed from their
\* lowest index: three indices, four indices, and rhino3dm's triangle (four
\* indices, the last one repeated).
FaceTuples ==
    {t \in [1..3 -> 1..4] \cup [1..4 -> 1..4] :
        /\ t[1] < t[2] /\ t[1] < t[3] /\ t[2] # t[3]
        /\ Len(t) = 4 => (t[4] \notin {t[1], t[2]})}

FreeMeshes ==
    {RhMesh(SquareVerts(0, 2), faces, TRUE, <<>>) :
        faces \in SeqsOf(FaceTuples, 0, MaxMeshFaces)}

\* The last one has a single face, on three vertices of one line.
SomeMeshes == {TriMesh, QuadMesh, StripMesh, RhMesh(SquareVerts(0, 2), <<>>, TRUE, <<>>),
               RhMesh(StripVerts, <<<<1, 2, 3>>>>, TRUE, <<>>)}

\* Extrusions, meshes, and the types to_face3d does not support.
PlainGeometries ==
    {Extrusion(mesh) : mesh \in SomeMeshes \cup {NoMesh}}
    \cup {Mesh(mesh) : mesh \in SomeMeshes}
    \cup {OtherGeometry(type) : type \in OtherTypes}

(***************************************************************************)
(* Values of the variables a state machine does not use.                   *)
(***************************************************************************)
Pending == [raised |-> "pending", faces |-> <<>>, path |-> "", warned |-> {}]

NoGeometry == [geo |-> OtherGeometry("none"), tolerance |-> 0, raise_exception |-> FALSE]

NoFile == [Layers |-> <<>>, Objects |-> <<>>]

NoQuery == [fn |-> "none", module |-> "", layer_name |-> "", layer |-> 0,
            visibility |-> FALSE]

NoAnswer == [raised |-> "pending", objects |-> <<>>]

NoConfig == [given |-> FALSE]

NoArgs == [visibility |-> TRUE, tolerance |-> 0]

NoCursor == [call |-> "none", run |-> 0, pos |-> 0, stream |-> 0, drawn |-> 0,
             raised |-> "none", warned |-> <<>>]

NoLists == [hb_faces |-> <<>>, hb_shades |-> <<>>, hb_apertures |-> <<>>,
            hb_doors |-> <<>>]

NoModel == [raised |-> "pending", rooms |-> <<>>, faces |-> <<>>, shades |-> <<>>,
            apertures |-> <<>>, doors |-> <<>>, sensor_grids |-> <<>>]

GeomIdle == rh_geo = NoGeometry /\ lb_face = Pending

LayerIdle == query = NoQuery /\ answer = NoAnswer

ImportIdle ==
    /\ config = NoConfig /\ args = NoArgs /\ cursor = NoCursor
    /\ hb_lists = NoLists /\ first_run = NoLists /\ hb_model = NoModel

(***************************************************************************)
(* SpecGeom: to_face3d on one geometry. SpecMesh: mesh_to_face3d on every  *)
(* mesh of the bound.                                                      *)
(***************************************************************************)
\* The tolerance matters where vertices are compared, raise_exception where
\* the type is looked at.
InitGeom ==
    /\ \/ rh_geo \in [geo : AnalyticBreps, tolerance : Tolerances,
                       raise_exception : {FALSE}]
       \/ rh_geo \in [geo : MeshedBreps, tolerance : Tolerances,
                       raise_exception : BOOLEAN]
       \/ rh_geo \in [geo : FacedBreps, tolerance : {0}, raise_exception : {FALSE}]
       \/ rh_geo \in [geo : PlainGeometries, tolerance : Tolerances,
                       raise_exception : BOOLEAN]
    /\ lb_face = Pending
    /\ file_3dm = NoFile /\ LayerIdle /\ ImportIdle

\* lb_face = to_face3d(obj, tolerance, raise_exception=...)
ToFace3d ==
    /\ lb_face = Pending
    /\ lb_face' = to_face3d(rh_geo.geo, rh_geo.tolerance, rh_geo.raise_exception)
    /\ UNCHANGED <<rh_geo, file_3dm, query, answer, config, args, cursor, hb_lists,
                   first_run, hb_model>>

NextGeom == ToFace3d

SpecGeom == InitGeom /\ [][NextGeom]_vars

InitMesh ==
    /\ rh_geo \in [geo : {Mesh(mesh) : mesh \in FreeMeshes}, tolerance : {0},
                   raise_exception : {FALSE}]
    /\ lb_face = Pending
    /\ file_3dm = NoFile /\ LayerIdle /\ ImportIdle

\* faces = mesh_to_face3d(mesh)
MeshToFace3d ==
    /\ lb_face = Pending
    /\ lb_face' = mesh_to_face3d(rh_geo.geo.mesh)
    /\ UNCHANGED <<rh_geo, file_3dm, query, answer, config, args, cursor, hb_lists,
                   first_run, hb_model>>

NextMesh == MeshToFace3d

SpecMesh == InitMesh /\ [][NextMesh]_vars

(***************************************************************************)
(* Claims on the geometry converter.                                       *)
(***************************************************************************)
Converted == lb_face # Pending

\* The Brep went down brep_to_face3d's analytic path and join_segments
\* returned several closed or open polylines, no segment among them.
AnalyticLoops ==
    /\ rh_geo.geo.type = "Brep" /\ ~rh_geo.geo.IsSolid
    /\ Len(rh_geo.geo.Faces) = 1 /\ check_planarity(rh_geo.geo, rh_geo.tolerance)
    /\ rh_geo.geo.Faces[1].mesh.ok /\ ~rh_geo.geo.curved
    /\ Len(rh_geo.geo.Faces[1].mesh.Vertices) \notin {3, 4}
    /\ Len(rh_geo.geo.joined) > 1
    /\ \A i \in 1..Len(rh_geo.geo.joined) : isinstance_Polyline3D(rh_geo.geo.joined[i])

\* Some vertex of a hole loop lies within the tolerance of a vertex of the
\* boundary loop (the loops as ranked by area and deduplicated).
HoleTouchesBoundary ==
    hole_pts_on_boundary_WithinTolerance(rh_geo.geo.joined, rh_geo.tolerance) # <<>>

\* C1: in brep_to_face3d, for a planar single-face non-solid Brep on the
\* analytic path with more than one joined loop, whenever a vertex of a hole
\* loop lies within the tolerance of a vertex of the boundary loop the meshed
\* fallback is returned, and never a Face3D that carries the hole.
C1_TouchingHoleIsMeshed ==
    (Converted /\ AnalyticLoops /\ HoleTouchesBoundary)
        => /\ lb_face.path = "mesh_fallback"
           /\ \A i \in 1..Len(lb_face.faces) : lb_face.faces[i].holes = <<>>

\* C2: mesh_to_face3d returns one Face3D per mesh face, in the order of the
\* faces, each with as many vertices as its face has indices (3 or 4), the
\* vertices those indices name, in the order of the indices.
C2_OneFace3DPerMeshFace ==
    Converted =>
        LET mesh == rh_geo.geo.mesh
        IN  /\ lb_face.raised = "none"
            /\ Len(lb_face.faces) = Len(mesh.Faces)
            /\ \A j \in 1..Len(mesh.Faces) :
                  /\ Len(lb_face.faces[j].boundary) = Len(mesh.Faces[j])
                  /\ Len(lb_face.faces[j].boundary) \in {3, 4}
                  /\ \A k \in 1..Len(mesh.Faces[j]) :
                        lb_face.faces[j].boundary[k] = mesh.Vertices[mesh.Faces[j][k]]
                  /\ lb_face.faces[j].holes = <<>>

\* A mesh of a triangle and then a quad has been converted.
C2_Witness ==
    /\ Converted
    /\ Len(rh_geo.geo.mesh.Faces) = 2
    /\ Len(rh_geo.geo.mesh.Faces[1]) = 3 /\ Len(rh_geo.geo.mesh.Faces[2]) = 4
    /\ Len(lb_face.faces) = 2

SupportedTypes == {"Brep", "Extrusion", "Mesh"}

\* C3: to_face3d on a geometry that is no Brep, Extrusion or Mesh raises
\* ValueError when raise_exception is set, and otherwise warns and returns
\* the empty list without raising; for a Brep, an Extrusion or a Mesh the
\* unsupported-type outcome never happens.
C3_UnsupportedType ==
    Converted =>
        IF rh_geo.geo.type \notin SupportedTypes
        THEN IF rh_geo.raise_exception
             THEN lb_face.raised = "ValueError" /\ lb_face.path = "unsupported"
             ELSE /\ lb_face.raised = "none" /\ lb_face.faces = <<>>
                  /\ "Unsupported object type" \in lb_face.warned
        ELSE /\ lb_face.path # "unsupported"
             /\ "Unsupported object type" \notin lb_face.warned

\* A curve has been handed over with raise_exception set, and ValueError raised.
C3_Witness ==
    /\ Converted
    /\ rh_geo.geo.type = "Curve" /\ rh_geo.raise_exception
    /\ lb_face.raised = "ValueError"

(***************************************************************************)
(* SpecLayer: one call of the layer resolver on one scene.                 *)
(***************************************************************************)
LayerNames == <<"A", "B", "C">>

\* The paths of the layer trees: the roots, then the children of each root.
LayerPaths ==
    [i \in 1..Len(LayerNames) |-> <<LayerNames[i]>>]
    \o Flatten([i \in 1..Len(LayerNames) |->
                   [j \in 1..Len(LayerNames) |-> <<LayerNames[i], "::", LayerNames[j]>>]])

\* Rhino keeps the parent of every layer in the layer table.
ParentClosed(K) ==
    \A k \in K : Len(LayerPaths[k]) > 1 =>
        \E r \in K : LayerPaths[r] = <<LayerPaths[k][1]>>

RhLayer(FullPath, Visible, Index) ==
    [Name |-> FullPath[Len(FullPath)], FullPath |-> FullPath, Visible |-> Visible,
     Index |-> Index]

RhObject(Id, LayerIndex, Visible, Name, Geometry) ==
    [Id |-> Id, LayerIndex |-> LayerIndex, Visible |-> Visible, Name |-> Name,
     Geometry |-> Geometry]

\* The layer tables: a parent-closed choice of paths, each layer on or off.
LayerTables ==
    UNION {
        LET paths == SelectIdx(LayerPaths, K)
        IN  {[i \in 1..Len(paths) |-> RhLayer(paths[i], visible[i], i - 1)] :
                visible \in [1..Len(paths) -> BOOLEAN]}
        : K \in {K \in SUBSET (1..Len(LayerPaths)) :
                    /\ K # {} /\ Cardinality(K) <= MaxLayers /\ ParentClosed(K)}}

\* One object on every layer; the object of the first layer may be hidden.
LayerScenes ==
    {[Layers |-> layers,
      Objects |-> [i \in 1..Len(layers) |->
                      RhObject(i, layers[i].Index, i # 1 \/ first_visible, <<>>,
                               OtherGeometry("Curve"))]] :
        layers \in LayerTables, first_visible \in BOOLEAN}

Modules == {"layer", "helper"}

QueryNames == Range(LayerNames) \cup {"Z"}

InitLayer ==
    /\ file_3dm \in LayerScenes
    /\ LayerIdle
    /\ GeomIdle /\ ImportIdle

\* objects_on_parent_child(file_3dm, layer_name, layer_visibility)
ObjectsOnParentChild ==
    /\ answer = NoAnswer
    /\ \E module \in Modules, layer_name \in QueryNames, visibility \in BOOLEAN :
          /\ query' = [fn |-> "objects_on_parent_child", module |-> module,
                       layer_name |-> layer_name, layer |-> 0,
                       visibility |-> visibility]
          /\ answer' = objects_on_parent_child(module, file_3dm, layer_name, visibility)
    /\ UNCHANGED <<rh_geo, lb_face, file_3dm, config, args, cursor, hb_lists,
                   first_run, hb_model>>

\* objects_on_layer(file_3dm, layer, layer_visibility)
ObjectsOnLayer ==
    /\ answer = NoAnswer
    /\ \E module \in Modules, layer \in 1..Len(file_3dm.Layers), visibility \in BOOLEAN :
          /\ query' = [fn |-> "objects_on_layer", module |-> module,
                       layer_name |-> "", layer |-> layer, visibility |-> visibility]
          /\ answer' = objects_on_layer(module, file_3dm, file_3dm.Layers[layer],
                                        visibility)
    /\ UNCHANGED <<rh_geo, lb_face, file_3dm, config, args, cursor, hb_lists,
                   first_run, hb_model>>

NextLayer == ObjectsOnParentChild \/ ObjectsOnLayer

SpecLayer == InitLayer /\ [][NextLayer]_vars

(***************************************************************************)
(* Claims on the layer resolver.                                           *)
(***************************************************************************)
HasAnswer == answer # NoAnswer

\* The layer of the table with this Index.
LayerOfIndex(index) ==
    CHOOSE i \in 1..Len(file_3dm.Layers) : file_3dm.Layers[i].Index = index

\* Layer a is a proper ancestor of layer b: its path is a proper prefix.
IsAncestor(a, b) ==
    LET pa == split(file_3dm.Layers[a].FullPath)
        pb == split(file_3dm.Layers[b].FullPath)
    IN  Len(pa) < Len(pb) /\ SubSeq(pb, 1, Len(pa)) = pa

EffectivelyVisible(i) ==
    /\ file_3dm.Layers[i].Visible
    /\ \A a \in 1..Len(file_3dm.Layers) : IsAncestor(a, i) => file_3dm.Layers[a].Visible

\* C4: with the visibility filter on, the resolver (objects_on_parent_child,
\* objects_on_layer) returns no object whose layer is hidden or has a hidden
\* ancestor layer.
C4_HiddenLayersExcluded ==
    (HasAnswer /\ query.visibility) =>
        \A k \in 1..Len(answer.objects) :
            EffectivelyVisible(LayerOfIndex(answer.objects[k].LayerIndex))

\* The layers named layer_name with their ancestors and descendants.
Closure(layer_name) ==
    {i \in 1..Len(file_3dm.Layers) :
        \E n \in 1..Len(file_3dm.Layers) :
            /\ file_3dm.Layers[n].Name = layer_name
            /\ i = n \/ IsAncestor(i, n) \/ IsAncestor(n, i)}

\* C5: with the visibility filter off, objects_on_parent_child returns every
\* object whose layer is the named layer, one of its ancestors or one of its
\* descendants, each exactly once, and no object of any other layer.
C5_ClosureObjects ==
    (HasAnswer /\ query.fn = "objects_on_parent_child" /\ ~query.visibility) =>
        /\ answer.raised = "none"
        /\ \A o \in 1..Len(file_3dm.Objects) :
              Cardinality({k \in 1..Len(answer.objects) :
                              answer.objects[k] = file_3dm.Objects[o]})
              = IF LayerOfIndex(file_3dm.Objects[o].LayerIndex)
                       \in Closure(query.layer_name)
                THEN 1 ELSE 0

\* C6: objects_on_parent_child raises ValueError ('Find no layer named ...')
\* whenever the requested name is the name of no layer of the scene, and does
\* not return an empty list then.
C6_UnknownLayerRaises ==
    (/\ HasAnswer /\ query.fn = "objects_on_parent_child"
     /\ \A i \in 1..Len(file_3dm.Layers) : file_3dm.Layers[i].Name # query.layer_name)
        => answer.raised = "ValueError"

(***************************************************************************)
(* honeybee.typing: the names of the elements.                             *)
(*                                                                         *)
(* A string is the sequence of its tokens: " " is a space, a token of      *)
(* IllegalChars stands for characters outside [.A-Za-z0-9_-], any other    *)
(* token for characters inside it.                                         *)
(***************************************************************************)
IllegalChars == {"#"}

\* re.sub(r'[^.A-Za-z0-9_-]', '', value.replace(' ', '_')); the caller sees
\* AssertionError when nothing is left.
clean_string(value) ==
    SelectSeq([i \in 1..Len(value) |-> IF value[i] = " " THEN "_" ELSE value[i]],
              LAMBDA c : c \notin IllegalChars)

\* str(uuid.uuid4())[:8]: the k-th draw of a run. What a run draws is one of
\* MaxStreams sequences, and no sequence repeats a draw.
uuid4(stream, k) == "u" \o ToString(stream) \o "-" \o ToString(k)

\* clean_and_id_string(value): the cleaned value, '_', eight digits of a uuid4.
clean_and_id_string(value, uuid) == clean_string(value) \o <<"_", uuid>>

(***************************************************************************)
(* face.py: import_faces.                                                  *)
(*                                                                         *)
(* An element is [kind, identifier, display_name, geometry, type, obj]:    *)
(* kind is the Honeybee class, obj the Id of the Rhino object it was made  *)
(* of (kept to trace the element, no field of the Honeybee object).        *)
(***************************************************************************)
HBKeys == <<"HB_grid", "HB_room", "HB_wall", "HB_roof", "HB_floor", "HB_airwall",
            "HB_shade", "HB_aperture", "HB_door", "HB_view">>

\* helper.py's child_parent_dict: the leaf name of every path to its root
\* name; of two layers with one leaf name the later one stays.
child_parent_dict(file) ==
    [name \in {file.Layers[i].Name : i \in 1..Len(file.Layers)} |->
        LET last == CHOOSE i \in 1..Len(file.Layers) :
                        /\ file.Layers[i].Name = name
                        /\ \A j \in (i + 1)..Len(file.Layers) : file.Layers[j].Name # name
        IN  split(file.Layers[last].FullPath)[1]]

check_layer_in_hb_layers(cfg, layer_name) ==
    /\ \E key \in Range(HBKeys) : cfg.HB_layers[key] = layer_name
    /\ layer_name # cfg.HB_layers["HB_grid"]
    /\ layer_name # cfg.HB_layers["HB_room"]
    /\ layer_name # cfg.HB_layers["HB_view"]

check_layer_not_in_hb_layers(cfg, layer_name, child_parent) ==
    /\ layer_name # cfg.HB_layers["HB_grid"]
    /\ layer_name # cfg.HB_layers["HB_room"]
    /\ layer_name # cfg.HB_layers["HB_view"]
    /\ child_parent[layer_name] # cfg.HB_layers["HB_grid"]
    /\ child_parent[layer_name] # cfg.HB_layers["HB_room"]
    /\ child_parent[layer_name] # cfg.HB_layers["HB_view"]

\* {config['HB_layers'][key]: key for key in config['HB_layers']}[layer_name]:
\* the last key that names the layer.
hb_layer_from_layer(cfg, layer_name) ==
    LET last == CHOOSE i \in 1..Len(HBKeys) :
                    /\ cfg.HB_layers[HBKeys[i]] = layer_name
                    /\ \A j \in (i + 1)..Len(HBKeys) : cfg.HB_layers[HBKeys[j]] # layer_name
    IN  HBKeys[last]

HbObject(type, module) == [type |-> type, module |-> module]

\* HB_layer : (Honeybee face_type, Class)
layer_to_hb_object(key) ==
    CASE key = "HB_roof" -> HbObject("roof_ceiling", "Face")
      [] key = "HB_wall" -> HbObject("wall", "Face")
      [] key = "HB_floor" -> HbObject("floor", "Face")
      [] key = "HB_airwall" -> HbObject("air_boundary", "Face")
      [] key = "HB_shade" -> HbObject("None", "Shade")
      [] key = "HB_aperture" -> HbObject("None", "Aperture")
      [] key = "HB_door" -> HbObject("None", "Door")

\* Face(*args) without a type: Honeybee derives the type from the normal.
DefaultFace == HbObject("by_normal", "Face")

SkipLayer == HbObject("None", "skip")

\* The branch of import_faces a layer takes: the class and type of a layer
\* that an HB_layer names, the default Face, or no import at all.
layer_branch(cfg, file, layer) ==
    IF cfg.given
    THEN IF check_layer_in_hb_layers(cfg, layer.Name)
         THEN layer_to_hb_object(hb_layer_from_layer(cfg, layer.Name))
         ELSE IF check_layer_not_in_hb_layers(cfg, layer.Name, child_parent_dict(file))
              THEN DefaultFace
              ELSE SkipLayer
    ELSE DefaultFace

obj_name_AlwaysSynthesized(name, layer_name, uuid) ==
    clean_and_id_string(<<layer_name>>, uuid)

\* obj_name = name or clean_and_id_string(layer.Name)
obj_name(name, layer_name, uuid) ==
    IF name # <<>> THEN name ELSE clean_and_id_string(<<layer_name>>, uuid)

\* hb_face = hb_face_module(*args); hb_face.display_name = args[0]
hb_object(branch, identifier, face_obj, obj) ==
    LET made == [kind |-> branch.module, identifier |-> identifier,
                 display_name |-> identifier, geometry |-> face_obj,
                 type |-> branch.type, obj |-> obj.Id]
    IN  [made EXCEPT !.display_name = identifier]

hb_objects_from_Unguarded(lb_faces, obj, layer, branch, stream, drawn) ==
    LET n == Len(lb_faces.faces)
        identifier(k) ==
            clean_string(obj_name(obj.Name, layer.Name, uuid4(stream, drawn + k)))
    IN  IF lb_faces.raised = "AttributeError"
        THEN [raised |-> "AttributeError", made |-> <<>>, draws |-> 0, warned |-> FALSE]
        ELSE IF lb_faces.raised # "none"
        THEN [raised |-> lb_faces.raised, made |-> <<>>, draws |-> 0, warned |-> FALSE]
        \* "for face_obj in lb_faces" over None
        ELSE IF lb_faces.path = "returns_None"
        THEN [raised |-> "TypeError", made |-> <<>>, draws |-> 0, warned |-> FALSE]
        ELSE IF clean_string(obj.Name) = <<>> /\ obj.Name # <<>> /\ n > 0
        THEN [raised |-> "AssertionError", made |-> <<>>, draws |-> 0, warned |-> FALSE]
        ELSE [raised |-> "none",
              made |-> [k \in 1..n |->
                          hb_object(branch, identifier(k), lb_faces.faces[k], obj)],
              draws |-> IF obj.Name = <<>> THEN n ELSE 0, warned |-> FALSE]

\* The body of "for obj in objects": the elements made of one object, the
\* number of uuid4 draws, the exception that ends the run, the warning.
hb_objects_from(lb_faces, obj, layer, branch, stream, drawn) ==
    LET n == Len(lb_faces.faces)
        identifier(k) ==
            clean_string(obj_name(obj.Name, layer.Name, uuid4(stream, drawn + k)))
    IN  IF lb_faces.raised = "AttributeError"
        THEN [raised |-> "none", made |-> <<>>, draws |-> 0, warned |-> TRUE]
        ELSE IF lb_faces.raised # "none"
        THEN [raised |-> lb_faces.raised, made |-> <<>>, draws |-> 0, warned |-> FALSE]
        \* "for face_obj in lb_faces" over None
        ELSE IF lb_faces.path = "returns_None"
        THEN [raised |-> "TypeError", made |-> <<>>, draws |-> 0, warned |-> FALSE]
        ELSE IF clean_string(obj.Name) = <<>> /\ obj.Name # <<>> /\ n > 0
        THEN [raised |-> "AssertionError", made |-> <<>>, draws |-> 0, warned |-> FALSE]
        ELSE [raised |-> "none",
              made |-> [k \in 1..n |->
                          hb_object(branch, identifier(k), lb_faces.faces[k], obj)],
              draws |-> IF obj.Name = <<>> THEN n ELSE 0, warned |-> FALSE]

hb_objects_of(obj, layer, branch, tolerance, stream, drawn) ==
    hb_objects_from(to_face3d(obj.Geometry, tolerance, FALSE), obj, layer, branch,
                    stream, drawn)

worklist_FileOrder(file, cfg, visibility) ==
    Flatten([o \in 1..Len(file.Objects) |->
        Flatten([i \in 1..Len(file.Layers) |->
            IF \/ layer_branch(cfg, file, file.Layers[i]) = SkipLayer
               \/ file.Objects[o] \notin Range(objects_on_layer("helper", file,
                                                   file.Layers[i], visibility).objects)
            THEN <<>>
            ELSE <<[layer |-> i, obj |-> file.Objects[o]]>>])])

\* The (layer, object) pairs the two loops of import_faces go through, in
\* their order: for layer in rhino3dm_file.Layers, for obj in objects.
worklist(file, cfg, visibility) ==
    Flatten([i \in 1..Len(file.Layers) |->
        IF layer_branch(cfg, file, file.Layers[i]) = SkipLayer THEN <<>>
        ELSE LET objects == objects_on_layer("helper", file, file.Layers[i],
                                             visibility).objects
             IN  [k \in 1..Len(objects) |-> [layer |-> i, obj |-> objects[k]]]])

\* hb_faces.append / hb_shades.append / hb_apertures.append / hb_doors.append
appended(lists, made) ==
    LET of(kind) == SelectSeq(made, LAMBDA hb : hb.kind = kind)
    IN  [hb_faces |-> lists.hb_faces \o of("Face"),
         hb_shades |-> lists.hb_shades \o of("Shade"),
         hb_apertures |-> lists.hb_apertures \o of("Aperture"),
         hb_doors |-> lists.hb_doors \o of("Door")]

(***************************************************************************)
(* model.py: import_3dm without a config. visible_layers and               *)
(* import_objects are called by model.py and defined in no file of the     *)
(* source tree; they are modelled on the specification: a layer is         *)
(* excluded unless it and all of its ancestors are visible, and a layer    *)
(* whose kind nothing assigns yields default Faces, named as all elements  *)
(* are.                                                                    *)
(***************************************************************************)
visible_layers(file) ==
    SelectSeq(file.Layers, LAMBDA layer :
        \A i \in 1..Len(file.Layers) :
            LET path == split(file.Layers[i].FullPath)
                mine == split(layer.FullPath)
            IN  (Len(path) <= Len(mine) /\ SubSeq(mine, 1, Len(path)) = path)
                    => file.Layers[i].Visible)

RECURSIVE import_objects_from(_, _, _, _, _, _)
import_objects_from(objects, layer, tolerance, stream, drawn, k) ==
    IF k > Len(objects)
    THEN [raised |-> "none", made |-> <<>>, draws |-> 0, warned |-> FALSE]
    ELSE LET one == hb_objects_of(objects[k], layer, DefaultFace, tolerance, stream, drawn)
         IN  IF one.raised # "none" THEN one
             ELSE LET rest == import_objects_from(objects, layer, tolerance, stream,
                                                  drawn + one.draws, k + 1)
                  IN  IF rest.raised # "none" THEN rest
                      ELSE [raised |-> "none", made |-> one.made \o rest.made,
                            draws |-> one.draws + rest.draws, warned |-> FALSE]

\* import_objects(rhino3dm_file, layer, tolerance=model_tolerance)
import_objects(file, layer, tolerance, stream, drawn) ==
    import_objects_from(helper_filter_objects_by_layer_index(file, <<layer.Index>>),
                        layer, tolerance, stream, drawn, 1)

Model(raised, faces) ==
    [raised |-> raised, rooms |-> <<>>, faces |-> faces, shades |-> <<>>,
     apertures |-> <<>>, doors |-> <<>>, sensor_grids |-> <<>>]

RECURSIVE import_layers(_, _, _, _, _, _)
\* for layer in layers: hb_faces.extend(import_objects(...))
import_layers(file, layers, tolerance, stream, drawn, i) ==
    IF i > Len(layers) THEN Model("none", <<>>)
    ELSE LET one == import_objects(file, layers[i], tolerance, stream, drawn)
         IN  IF one.raised # "none" THEN Model(one.raised, <<>>)
             ELSE LET rest == import_layers(file, layers, tolerance, stream,
                                            drawn + one.draws, i + 1)
                  IN  IF rest.raised # "none" THEN rest
                      ELSE Model("none", one.made \o rest.faces)

import_3dm_AllLayers(file, tolerance, stream) ==
    IF visible_layers(file) = <<>> THEN Model("ValueError", <<>>)
    ELSE import_layers(file, file.Layers, tolerance, stream, 0, 1)

\* import_3dm(path) with config_path None: ValueError when no layer is on,
\* else the Faces of the visible layers, no other element and no grid.
import_3dm(file, tolerance, stream) ==
    LET rhino_visible_layers == visible_layers(file)
    IN  IF rhino_visible_layers = <<>> THEN Model("ValueError", <<>>)
        ELSE import_layers(file, rhino_visible_layers, tolerance, stream, 0, 1)

(***************************************************************************)
(* SpecImport: import_faces run twice on one scene with one config, one    *)
(* object a step; or import_3dm run on the scene without a config.         *)
(***************************************************************************)
NestedPaths == <<<<"A">>, <<"A", "::", "B">>, <<"A", "::", "B", "::", "C">>>>

\* The layer tree of the scenes: a root and its child.
ImportPaths == <<<<"A">>, <<"A", "::", "B">>>>

ImportLayerTables ==
    UNION {
        LET paths == SelectIdx(ImportPaths, K)
        IN  {[i \in 1..Len(paths) |-> RhLayer(paths[i], visible[i], i - 1)] :
                visible \in [1..Len(paths) -> BOOLEAN]}
        : K \in {K \in SUBSET (1..Len(ImportPaths)) :
                    K # {} /\ (\A k \in K : Len(ImportPaths[k]) > 1 =>
                                  \E r \in K : ImportPaths[r] = <<ImportPaths[k][1]>>)}}

\* No name, a name that cleaning changes.
UserNames == {<<>>, <<"w", " ", "#">>}

\* A mesh of two faces, an extrusion without a render mesh in the file.
ImportGeometries == {Mesh(QuadMesh), Extrusion(NoMesh)}

ImportScenes ==
    UNION {
        {[Layers |-> layers,
          Objects |-> [i \in 1..Len(objs) |->
                          RhObject(i, objs[i][1], TRUE, objs[i][2], objs[i][3])]] :
            objs \in SeqsOf({layers[i].Index : i \in 1..Len(layers)}
                            \X UserNames \X ImportGeometries, 0, MaxObjects)}
        : layers \in ImportLayerTables}

\* A config that ties one HB_layer to a layer name and the others to none.
HBConfig(key, layer_name) ==
    [given |-> TRUE,
     HB_layers |-> [k \in Range(HBKeys) |-> IF k = key THEN layer_name ELSE "None"]]

\* No config; the root layer as a wall, a shade, an aperture, a door, a grid.
ImportConfigs ==
    {NoConfig} \cup {HBConfig(key, "A") :
        key \in {"HB_wall", "HB_shade", "HB_aperture", "HB_door", "HB_grid"}}

StartCursor(run, stream) ==
    [call |-> "import_faces", run |-> run, pos |-> 1, stream |-> stream, drawn |-> 0,
     raised |-> "none", warned |-> <<>>]

\* The scenes and configs of the bound, or a chain of three nested layers
\* with one mesh each and a config that ties one HB_layer to one of them.
InitImport ==
    /\ \/ /\ file_3dm \in ImportScenes
          /\ config \in ImportConfigs
       \/ /\ file_3dm = [Layers |-> [i \in 1..3 |-> RhLayer(NestedPaths[i], TRUE, i - 1)],
                          Objects |-> [i \in 1..3 |->
                                          RhObject(i, i - 1, TRUE, <<"o", ToString(i)>>,
                                                   Mesh(QuadMesh))]]
          /\ config \in {HBConfig(key, layer_name) :
                            key \in {"HB_grid", "HB_room", "HB_view", "HB_wall", "HB_shade"},
                            layer_name \in {"A", "B", "C"}}
    /\ args \in [visibility : BOOLEAN, tolerance : {0}]
    /\ cursor = StartCursor(1, 1)
    /\ hb_lists = NoLists /\ first_run = NoLists /\ hb_model = NoModel
    /\ GeomIdle /\ LayerIdle

Running ==
    cursor.call = "import_faces" /\ cursor.run \in {1, 2} /\ cursor.raised = "none"

\* One pass of the body of "for obj in objects" of import_faces.
ImportObject ==
    /\ Running
    /\ \E todo \in {worklist(file_3dm, config, args.visibility)} :
          /\ cursor.pos <= Len(todo)
          /\ \E one \in {hb_objects_of(todo[cursor.pos].obj,
                                       file_3dm.Layers[todo[cursor.pos].layer],
                                       layer_branch(config, file_3dm,
                                           file_3dm.Layers[todo[cursor.pos].layer]),
                                       args.tolerance, cursor.stream, cursor.drawn)} :
                /\ hb_lists' = appended(hb_lists, one.made)
                /\ cursor' = [cursor EXCEPT
                                 !.pos = @ + 1,
                                 !.drawn = @ + one.draws,
                                 !.raised = one.raised,
                                 !.warned = IF one.warned
                                            THEN Append(@, todo[cursor.pos].obj.Id)
                                            ELSE @]
    /\ UNCHANGED <<rh_geo, lb_face, file_3dm, query, answer, config, args, first_run,
                   hb_model>>

\* return hb_faces, hb_shades, hb_apertures, hb_doors; the second run starts
\* after the first, on the same scene with the same arguments.
ReturnLists ==
    /\ Running
    /\ cursor.pos > Len(worklist(file_3dm, config, args.visibility))
    /\ IF cursor.run = 1
       THEN /\ first_run' = hb_lists
            /\ hb_lists' = NoLists
            /\ \E stream \in 1..MaxStreams : cursor' = StartCursor(2, stream)
       ELSE /\ cursor' = [cursor EXCEPT !.run = 3]
            /\ UNCHANGED <<hb_lists, first_run>>
    /\ UNCHANGED <<rh_geo, lb_face, file_3dm, query, answer, config, args, hb_model>>

\* hb_model = import_3dm(path), no config_path.
Import3dm ==
    /\ cursor = StartCursor(1, 1) /\ hb_lists = NoLists /\ first_run = NoLists
    /\ ~config.given
    /\ hb_model' = import_3dm(file_3dm, args.tolerance, cursor.stream)
    /\ cursor' = [cursor EXCEPT !.call = "import_3dm", !.run = 3]
    /\ UNCHANGED <<rh_geo, lb_face, file_3dm, query, answer, config, args, hb_lists,
                   first_run>>

NextImport == ImportObject \/ ReturnLists \/ Import3dm

SpecImport == InitImport /\ [][NextImport]_vars

(***************************************************************************)
(* Claims on the import.                                                   *)
(***************************************************************************)
AllOf(lists) ==
    lists.hb_faces \o lists.hb_shades \o lists.hb_apertures \o lists.hb_doors

UniqueIdentifiers(elements) ==
    \A i, j \in 1..Len(elements) :
        i # j => elements[i].identifier # elements[j].identifier

\* C7: no two elements that one import_faces run produces, over hb_faces,
\* hb_shades, hb_apertures and hb_doors together, have the same identifier.
C7_IdentifiersUnique ==
    cursor.call = "import_faces"
        => UniqueIdentifiers(AllOf(hb_lists)) /\ UniqueIdentifiers(AllOf(first_run))

\* The elements made so far: by the runs of import_faces, by import_3dm.
AllElements == AllOf(hb_lists) \o AllOf(first_run) \o hb_model.faces

\* The draws of the runs.
Uuids == {uuid4(stream, k) : stream \in 1..MaxStreams, k \in 1..(2 * MaxObjects)}

\* The identifier is a cleaned layer name, '_' and a uuid4 draw.
IsSynthesized(identifier) ==
    /\ Len(identifier) > 2
    /\ identifier[Len(identifier)] \in Uuids
    /\ identifier[Len(identifier) - 1] = "_"
    /\ \E i \in 1..Len(file_3dm.Layers) :
          SubSeq(identifier, 1, Len(identifier) - 2)
              = clean_string(<<file_3dm.Layers[i].Name>>)

\* C8: every element made of an object with a non-empty name N has the
\* cleaned N (spaces to underscores, other illegal characters dropped) as
\* its identifier and as its display_name; an identifier synthesized from
\* the layer name belongs to an object without a name only.
C8_NamedObjectKeepsName ==
    \A e \in 1..Len(AllElements) :
        LET hb == AllElements[e]
            N == file_3dm.Objects[hb.obj].Name
        IN  /\ N # <<>> =>
                /\ hb.identifier = clean_string(N)
                /\ hb.display_name = clean_string(N)
            /\ IsSynthesized(hb.identifier) => N = <<>>

\* A run has made an element of the object named "w #": its identifier and
\* display_name are "w_"; and an element of an object without a name.
C8_Witness ==
    /\ cursor.call = "import_faces"
    /\ \E e \in 1..Len(AllOf(hb_lists)) :
          /\ file_3dm.Objects[AllOf(hb_lists)[e].obj].Name = <<"w", " ", "#">>
          /\ AllOf(hb_lists)[e].identifier = <<"w", "_">>
          /\ AllOf(hb_lists)[e].display_name = <<"w", "_">>
    /\ \E e \in 1..Len(AllOf(hb_lists)) :
          /\ file_3dm.Objects[AllOf(hb_lists)[e].obj].Name = <<>>
          /\ IsSynthesized(AllOf(hb_lists)[e].identifier)

\* C9: two runs of the conversion on one scene with one configuration return
\* the same elements with the same identifiers in the same order.
C9_SecondRunIdentical ==
    (cursor.call = "import_faces" /\ cursor.run = 3) => hb_lists = first_run

\* The layer of the table with this Index, and its ancestors, are visible.
OnVisibleLayer(index) ==
    \E i \in 1..Len(visible_layers(file_3dm)) : visible_layers(file_3dm)[i].Index = index

\* C10: the Model import_3dm returns without a config has no aperture, no
\* door, no shade and no sensor grid; every element of it is a Face, made of
\* an object on a visible layer.
C10_NoConfigOnlyFaces ==
    (cursor.call = "import_3dm" /\ hb_model.raised = "none") =>
        /\ hb_model.apertures = <<>> /\ hb_model.doors = <<>>
        /\ hb_model.shades = <<>> /\ hb_model.sensor_grids = <<>>
        /\ \A e \in 1..Len(hb_model.faces) :
              /\ hb_model.faces[e].kind = "Face"
              /\ OnVisibleLayer(file_3dm.Objects[hb_model.faces[e].obj].LayerIndex)

\* import_3dm has returned a Model with Faces of a scene that has a mesh on a
\* layer that is not visible.
C10_Witness ==
    /\ cursor.call = "import_3dm" /\ hb_model.raised = "none"
    /\ hb_model.faces # <<>>
    /\ \E o \in 1..Len(file_3dm.Objects) :
          /\ ~OnVisibleLayer(file_3dm.Objects[o].LayerIndex)
          /\ file_3dm.Objects[o].Geometry = Mesh(QuadMesh)

\* Where an element comes from: the position of its layer in the layer
\* table, the position of its object in the object table, the position of
\* its polygon in the list to_face3d returns for the object.
OriginOf(hb) ==
    LET obj == file_3dm.Objects[hb.obj]
        polygons == to_face3d(obj.Geometry, args.tolerance, FALSE).faces
    IN  <<LayerOfIndex(obj.LayerIndex), hb.obj,
          CHOOSE k \in 1..Len(polygons) : polygons[k] = hb.geometry>>

ComesBefore(a, b) ==
    \/ a[1] < b[1]
    \/ a[1] = b[1] /\ a[2] < b[2]
    \/ a[1] = b[1] /\ a[2] = b[2] /\ a[3] < b[3]

InSceneOrder(elements) ==
    \A i, j \in 1..Len(elements) :
        i < j => ComesBefore(OriginOf(elements[i]), OriginOf(elements[j]))

\* C11: in every output list of a run (hb_faces, hb_shades, hb_apertures,
\* hb_doors of import_faces, the faces of import_3dm), at every point of the
\* run, the elements stand in the order of the layers of the scene, within a
\* layer in the order of its objects, within an object in the order of its
\* polygons: no element of a later layer precedes one of an earlier layer.
C11_SceneOrderKept ==
    /\ InSceneOrder(hb_lists.hb_faces) /\ InSceneOrder(hb_lists.hb_shades)
    /\ InSceneOrder(hb_lists.hb_apertures) /\ InSceneOrder(hb_lists.hb_doors)
    /\ InSceneOrder(first_run.hb_faces) /\ InSceneOrder(first_run.hb_shades)
    /\ InSceneOrder(first_run.hb_apertures) /\ InSceneOrder(first_run.hb_doors)
    /\ InSceneOrder(hb_model.faces)

\* A run has made four Faces of two meshes of two polygons each, the second
\* object of the scene on the first layer and the first object on the second
\* layer: the elements of the second object come first.
C11_Witness ==
    /\ cursor.call = "import_faces"
    /\ Len(hb_lists.hb_faces) = 4
    /\ hb_lists.hb_faces[1].obj = 2 /\ hb_lists.hb_faces[2].obj = 2
    /\ hb_lists.hb_faces[3].obj = 1 /\ hb_lists.hb_faces[4].obj = 1
    /\ hb_lists.hb_faces[1].geometry # hb_lists.hb_faces[2].geometry

(***************************************************************************)
(* room.py: to_room. A Room is [identifier, faces, naked_edges, obj]:      *)
(* faces are the Face3Ds of its polyface, naked_edges whether the polyface *)
(* has an edge that belongs to one face only, obj the Id of the Rhino      *)
(* object. Of a volume, IsSolid is what the file reports of it: Brep's and *)
(* Extrusion's IsSolid, Mesh's IsClosed.                                   *)
(***************************************************************************)
all_closed_AlwaysTrue(volumes) == TRUE

\* check.append(True) for a solid Extrusion, a solid Brep, a closed Mesh;
\* assert len(check) == len(volumes)
all_closed(volumes) ==
    Len(SelectSeq(volumes, LAMBDA object :
            /\ object.Geometry.type \in {"Extrusion", "Brep", "Mesh"}
            /\ object.Geometry.IsSolid))
        = Len(volumes)

\* The body of "for i in range(len(volumes))": the Room of one volume, or the
\* exception that ends the run. brep_to_face3d is called without its
\* tolerance; Room.from_polyface3d makes the Room of the faces of the
\* polyface, whatever its naked edges, once valid_string accepts the name.
room_of(volume, name) ==
    LET rh_solid == volume.Geometry
        lb_faces == IF rh_solid.type = "Brep" THEN Raised("TypeError", "to_room")
                    ELSE IF rh_solid.type = "Extrusion" THEN extrusion_to_face3d(rh_solid)
                    ELSE IF rh_solid.type = "Mesh" THEN mesh_to_face3d(rh_solid.mesh)
                    ELSE Raised("NameError", "to_room")
    IN  IF lb_faces.raised # "none" THEN [raised |-> lb_faces.raised, rooms |-> <<>>]
        ELSE IF ~rh_solid.mesh.polyface_ok THEN [raised |-> "Exception", rooms |-> <<>>]
        ELSE IF clean_string(name) # name THEN [raised |-> "AssertionError", rooms |-> <<>>]
        ELSE [raised |-> "none",
              rooms |-> <<[identifier |-> name, faces |-> lb_faces.faces,
                           naked_edges |-> rh_solid.mesh.naked_joined # <<>>,
                           obj |-> volume.Id]>>]

RECURSIVE rooms_from(_, _, _)
\* hb_rooms.append(hb_room) over the volumes: the first exception ends the loop.
rooms_from(volumes, room_names, i) ==
    IF i > Len(volumes) THEN [raised |-> "none", rooms |-> <<>>]
    ELSE LET one == room_of(volumes[i], room_names[i])
         IN  IF one.raised # "none" THEN one
             ELSE LET rest == rooms_from(volumes, room_names, i + 1)
                  IN  IF rest.raised # "none" THEN rest
                      ELSE [raised |-> "none", rooms |-> one.rooms \o rest.rooms]

\* to_room(path): the objects on the layer named "room" (of several, the
\* last: dict(zip(layer_name, layer_index))), hidden or not.
to_room(file, stream) ==
    LET named == {i \in 1..Len(file.Layers) : file.Layers[i].Name = "room"}
        last == CHOOSE i \in named : \A j \in named : j <= i
        volumes == SelectSeq(file.Objects, LAMBDA object :
                       object.LayerIndex = file.Layers[last].Index)
        unnamed(i) == Cardinality({j \in 1..i : volumes[j].Name = <<>>})
        room_names == [i \in 1..Len(volumes) |->
                          IF Len(volumes[i].Name) > 0 THEN volumes[i].Name
                          ELSE <<"Room", uuid4(stream, unnamed(i))>>]
    IN  IF named = {} THEN [raised |-> "KeyError", rooms |-> <<>>]
        ELSE IF ~all_closed(volumes) THEN [raised |-> "AssertionError", rooms |-> <<>>]
        ELSE rooms_from(volumes, room_names, 1)

(***************************************************************************)
(* SpecRoom: to_room, or import_3dm without a config, on a scene with      *)
(* volumes on a layer named "room".                                        *)
(***************************************************************************)
\* A box of six planar faces, the same with a face removed; extrusions and
\* meshes, reported closed or not, whose faces recombine without a naked
\* edge (ClosedMesh) or with one (StripMesh); an extrusion without a render
\* mesh; a curve.
RoomGeometries ==
    {Brep(n = 6, [i \in 1..n |-> BrepFace(QuadMesh, FALSE)], [i \in 1..n |-> TRUE],
          FALSE, <<>>) : n \in {5, 6}}
    \cup {[Extrusion(ClosedMesh) EXCEPT !.IsSolid = TRUE],
          [Extrusion(StripMesh) EXCEPT !.IsSolid = TRUE],
          Extrusion(StripMesh),
          [Extrusion(NoMesh) EXCEPT !.IsSolid = TRUE],
          [Mesh(ClosedMesh) EXCEPT !.IsSolid = TRUE],
          Mesh(StripMesh),
          OtherGeometry("Curve")}

\* The scenes of a layer table: up to MaxObjects objects, all on the last
\* layer.
RoomScenes(layers) ==
    {[Layers |-> layers,
      Objects |-> [i \in 1..Len(objs) |->
                      RhObject(i, layers[Len(layers)].Index, TRUE, objs[i][1],
                               objs[i][2])]] :
        objs \in SeqsOf({<<>>, <<"r">>} \X RoomGeometries, 0, MaxObjects)}

\* The layer "room" on or off, alone or after a visible layer "A", or no
\* layer "room" at all.
InitRoom ==
    /\ \E layers \in {<<RhLayer(<<"room">>, TRUE, 0)>>,
                       <<RhLayer(<<"room">>, FALSE, 0)>>,
                       <<RhLayer(<<"A">>, TRUE, 0), RhLayer(<<"room">>, FALSE, 1)>>,
                       <<RhLayer(<<"A">>, TRUE, 0)>>} :
          file_3dm \in RoomScenes(layers)
    /\ config = NoConfig /\ args = NoArgs
    /\ cursor = StartCursor(1, 1)
    /\ hb_lists = NoLists /\ first_run = NoLists /\ hb_model = NoModel
    /\ GeomIdle /\ LayerIdle

\* hb_rooms = to_room(path)
ToRoom ==
    /\ cursor = StartCursor(1, 1)
    /\ hb_model' = [NoModel EXCEPT !.raised = to_room(file_3dm, cursor.stream).raised,
                                   !.rooms = to_room(file_3dm, cursor.stream).rooms]
    /\ cursor' = [cursor EXCEPT !.call = "to_room", !.run = 3]
    /\ UNCHANGED <<rh_geo, lb_face, file_3dm, query, answer, config, args, hb_lists,
                   first_run>>

NextRoom == ToRoom \/ Import3dm

SpecRoom == InitRoom /\ [][NextRoom]_vars

(***************************************************************************)
(* Claims on the rooms.                                                    *)
(***************************************************************************)
OnRoomLayer(o) ==
    \E i \in 1..Len(file_3dm.Layers) :
        /\ file_3dm.Layers[i].Name = "room"
        /\ file_3dm.Objects[o].LayerIndex = file_3dm.Layers[i].Index

\* A solid Brep, a solid Extrusion or a closed Mesh.
IsClosedVolume(geo) == geo.type \in {"Brep", "Extrusion", "Mesh"} /\ geo.IsSolid

\* C12: to_room raises and returns no Room whenever some object on the room
\* layer is not a closed volume (a solid Brep, a solid Extrusion, a closed
\* Mesh), and no Room it returns is made of an object that is not closed.
C12_OpenVolumeRejected ==
    cursor.call = "to_room" =>
        /\ (\E o \in 1..Len(file_3dm.Objects) :
               OnRoomLayer(o) /\ ~IsClosedVolume(file_3dm.Objects[o].Geometry))
               => (hb_model.raised # "none" /\ hb_model.rooms = <<>>)
        /\ \A r \in 1..Len(hb_model.rooms) :
               IsClosedVolume(file_3dm.Objects[hb_model.rooms[r].obj].Geometry)

\* to_room has raised AssertionError on a room layer that holds a closed mesh
\* and then an extrusion that is not solid.
C12_Witness ==
    /\ cursor.call = "to_room"
    /\ Len(file_3dm.Objects) = 2 /\ OnRoomLayer(1) /\ OnRoomLayer(2)
    /\ file_3dm.Objects[1].Geometry = [Mesh(ClosedMesh) EXCEPT !.IsSolid = TRUE]
    /\ file_3dm.Objects[2].Geometry = Extrusion(StripMesh)
    /\ hb_model.raised = "AssertionError" /\ hb_model.rooms = <<>>

\* The room layer holds one object, reported solid or closed, with a mesh for
\* every facet, of which a polyface can be made.
OneSolidOfFacets ==
    /\ Len(file_3dm.Objects) = 1 /\ OnRoomLayer(1)
    /\ IsClosedVolume(file_3dm.Objects[1].Geometry)
    /\ LET geo == file_3dm.Objects[1].Geometry
       IN  IF geo.type = "Brep"
           THEN \A i \in 1..Len(geo.Faces) :
                    geo.Surfaces[i] /\ geo.Faces[i].mesh.ok /\ geo.Faces[i].mesh.polyface_ok
           ELSE geo.mesh.ok /\ geo.mesh.polyface_ok

\* The recombined faces of the object leave a naked edge (the faces of the
\* six-faced box leave none).
LeavesNakedEdge ==
    LET geo == file_3dm.Objects[1].Geometry
    IN  IF geo.type = "Brep" THEN Len(geo.Faces) # 6 ELSE geo.mesh.naked_joined # <<>>

\* C13: for a solid object of planar facets on the room layer, to_room
\* returns its Room when the recombined faces leave no naked edge, and raises,
\* returning no Room, when they leave one.
C13_RoomIffNoNakedEdge ==
    (cursor.call = "to_room" /\ OneSolidOfFacets) =>
        IF LeavesNakedEdge
        THEN hb_model.raised # "none" /\ hb_model.rooms = <<>>
        ELSE /\ hb_model.raised = "none" /\ Len(hb_model.rooms) = 1
             /\ hb_model.rooms[1].obj = 1

\* The scene holds one closed six-faced box, on the room layer, which is off.
BoxOnHiddenRoomLayer ==
    /\ Len(file_3dm.Objects) = 1 /\ OnRoomLayer(1)
    /\ file_3dm.Objects[1].Geometry.type = "Brep"
    /\ file_3dm.Objects[1].Geometry.IsSolid
    /\ Len(file_3dm.Objects[1].Geometry.Faces) = 6
    /\ ~file_3dm.Layers[Len(file_3dm.Layers)].Visible

\* C14: for a scene with one closed six-faced box on the room layer and that
\* layer off, the conversion that filters by visibility (import_3dm) yields
\* no Room and the conversion that does not (to_room) yields exactly one.
C14_HiddenBoxRooms ==
    BoxOnHiddenRoomLayer =>
        /\ cursor.call = "import_3dm" => hb_model.rooms = <<>>
        /\ cursor.call = "to_room" =>
              hb_model.raised = "none" /\ Len(hb_model.rooms) = 1

(***************************************************************************)
(* config.py: check_rad. A config of the 'layers' schema is [layers,       *)
(* sources, materials]: layers is the sequence of the entries of           *)
(* config['layers'] in their order, each with its radiance_material        *)
(* (NoKey: the entry has no such key); sources says whether the config has *)
(* sources.radiance_material and whether the path can be opened; materials *)
(* are the identifiers of the file at that path.                           *)
(***************************************************************************)
NoKey == "<no key>"

RECURSIVE modifiers_after(_, _, _)
\* modifiers_dict is [state, identifiers]: not assigned ("unbound"), None
\* (mat_to_dict warns and returns None when the file cannot be opened), or
\* the dictionary of the file.
\* Check-04, "for layer in config['layers']": the loop ends at the first
\* layer that has a radiance_material; before it, every layer loads the
\* material file, or raises KeyError when there is no source.
modifiers_after(cfg, i, modifiers_dict) ==
    IF i > Len(cfg.layers) THEN [raised |-> "none", modifiers_dict |-> modifiers_dict]
    ELSE IF cfg.layers[i].radiance_material # NoKey
    THEN [raised |-> "none", modifiers_dict |-> modifiers_dict]
    ELSE IF cfg.sources # "absent"
    THEN modifiers_after(cfg, i + 1,
             IF cfg.sources = "file"
             THEN [state |-> "dict", identifiers |-> cfg.materials]
             ELSE [state |-> "None", identifiers |-> {}])
    ELSE [raised |-> "KeyError", modifiers_dict |-> modifiers_dict]

\* check_rad(config): Check-04, then Check-05 on the requested materials.
check_rad(cfg) ==
    LET loaded == modifiers_after(cfg, 1, [state |-> "unbound", identifiers |-> {}])
        rad_mat == SelectSeq([i \in 1..Len(cfg.layers) |-> cfg.layers[i].radiance_material],
                             LAMBDA mat : mat # NoKey)
    IN  IF loaded.raised # "none" THEN [raised |-> loaded.raised, value |-> FALSE]
        \* "mat in modifiers_dict" is evaluated for the first requested material
        ELSE IF rad_mat # <<>> /\ loaded.modifiers_dict.state = "unbound"
        THEN [raised |-> "NameError", value |-> FALSE]
        ELSE IF rad_mat # <<>> /\ loaded.modifiers_dict.state = "None"
        THEN [raised |-> "TypeError", value |-> FALSE]
        ELSE IF Len(rad_mat) # Len(SelectSeq(rad_mat, LAMBDA mat :
                                      mat \in loaded.modifiers_dict.identifiers))
        THEN [raised |-> "ValueError", value |-> FALSE]
        ELSE [raised |-> "none", value |-> TRUE]

(***************************************************************************)
(* helper.py: check_grid_controls; grid.py: import_grids. A config of the  *)
(* 'HB_layers' schema is [HB_grid, grid_controls]; a grid control is       *)
(* [type, value], type the Python type of the value. A SensorGrid is       *)
(* [identifier, mesh3d, obj].                                              *)
(***************************************************************************)
\* check = [isinstance(item, float) for item in grid_controls];
\* len(grid_controls) == len(check)
check_grid_controls(grid_controls) ==
    LET check == [i \in 1..Len(grid_controls) |-> grid_controls[i].type = "float"]
    IN  Len(grid_controls) = Len(check)

RECURSIVE grids_from(_, _, _, _, _)
\* "for obj in grid_objs": check_planarity is called without its tolerance
\* for a Brep; an object that is no Brep and no Mesh leaves mesh3d as it was.
grids_from(grid_objs, i, mesh3d, stream, drawn) ==
    IF i > Len(grid_objs) THEN [raised |-> "none", hb_grids |-> <<>>]
    ELSE LET obj == grid_objs[i]
             geo == obj.Geometry
             now == IF geo.type = "Mesh"
                    THEN [bound |-> TRUE, Vertices |-> geo.mesh.Vertices,
                          Faces |-> geo.mesh.Faces]
                    ELSE mesh3d
             grid_name == obj_name(obj.Name, "Grid", uuid4(stream, drawn + 1))
             rest == grids_from(grid_objs, i + 1, now, stream,
                                drawn + (IF obj.Name = <<>> THEN 1 ELSE 0))
         IN  IF geo.type = "Brep" THEN [raised |-> "TypeError", hb_grids |-> <<>>]
             ELSE IF ~now.bound THEN [raised |-> "NameError", hb_grids |-> <<>>]
             ELSE IF clean_string(grid_name) = <<>>
             THEN [raised |-> "AssertionError", hb_grids |-> <<>>]
             ELSE IF rest.raised # "none" THEN rest
             ELSE [raised |-> "none",
                   hb_grids |-> <<[identifier |-> clean_string(grid_name),
                                   mesh3d |-> now, obj |-> obj.Id]>> \o rest.hb_grids]

\* import_grids(rhino3dm_file, tolerance, visibility=..., config=...): checked
\* is what check_grid_controls returned, grid_controls the list the run
\* settled on (none when config['grid_controls'] is empty).
import_grids(file, visibility, cfg, stream) ==
    LET grid_settings == cfg.grid_controls
        checked == check_grid_controls(grid_settings)
        grid_controls ==
            IF grid_settings = <<>> THEN <<>>
            ELSE IF checked THEN grid_settings
            ELSE <<[type |-> "float", value |-> 1], [type |-> "float", value |-> 1],
                   [type |-> "float", value |-> 0]>>
        warned == IF grid_settings # <<>> /\ ~checked
                  THEN {"Grid setting from config file not applied"} ELSE {}
        grid_objs == objects_on_parent_child("helper", file, cfg.HB_grid, visibility)
        made == grids_from(grid_objs.objects, 1,
                           [bound |-> FALSE, Vertices |-> <<>>, Faces |-> <<>>], stream, 0)
    IN  IF cfg.HB_grid = ""
        THEN [raised |-> "none", hb_grids |-> <<>>, checked |-> FALSE,
              grid_controls |-> <<>>, warned |-> {}]
        ELSE IF grid_objs.raised # "none"
        THEN [raised |-> grid_objs.raised, hb_grids |-> <<>>, checked |-> checked,
              grid_controls |-> grid_controls, warned |-> warned]
        ELSE [raised |-> made.raised, hb_grids |-> made.hb_grids, checked |-> checked,
              grid_controls |-> grid_controls, warned |-> warned]

(***************************************************************************)
(* SpecConfig: check_rad on a config of the 'layers' schema; import_grids  *)
(* on a scene with a layer "grid" and a config of the 'HB_layers' schema.  *)
(***************************************************************************)
InitConfig ==
    /\ \/ /\ config \in [layers : SeqsOf([radiance_material : {NoKey, "m1", "m2"}],
                                         1, MaxLayers),
                         sources : {"absent", "file", "no file"},
                         materials : {{"m1"}, {"m1", "m2"}}]
          /\ file_3dm = NoFile
          /\ query = [NoQuery EXCEPT !.fn = "check_rad"]
       \/ /\ config \in [HB_grid : {"grid", ""},
                         grid_controls : {<<>>} \cup
                             [1..3 -> [type : {"float", "int", "str"}, value : {0, 1}]]]
          /\ file_3dm \in
                {[Layers |-> <<RhLayer(<<"grid">>, TRUE, 0)>>,
                  Objects |-> [i \in 1..Len(objs) |->
                                  RhObject(i, 0, TRUE, <<>>, objs[i])]] :
                    objs \in SeqsOf({Mesh(QuadMesh), OtherGeometry("Curve"),
                                     Brep(FALSE, <<BrepFace(QuadMesh, FALSE)>>, <<TRUE>>,
                                          FALSE, <<ClosedLoop(SquareVerts(0, 2))>>)},
                                    0, MaxObjects)}
          /\ query = [NoQuery EXCEPT !.fn = "import_grids"]
    /\ answer = NoAnswer
    /\ args = NoArgs /\ cursor = NoCursor
    /\ hb_lists = NoLists /\ first_run = NoLists /\ hb_model = NoModel
    /\ GeomIdle

\* check_rad(config)
CheckRad ==
    /\ answer = NoAnswer /\ query.fn = "check_rad"
    /\ answer' = check_rad(config)
    /\ UNCHANGED <<rh_geo, lb_face, file_3dm, query, config, args, cursor, hb_lists,
                   first_run, hb_model>>

\* hb_grids = import_grids(rhino3dm_file, tolerance, visibility=..., config=...)
ImportGrids ==
    /\ answer = NoAnswer /\ query.fn = "import_grids"
    /\ \E visibility \in BOOLEAN :
          /\ query' = [query EXCEPT !.visibility = visibility]
          /\ answer' = import_grids(file_3dm, visibility, config, 1)
    /\ UNCHANGED <<rh_geo, lb_face, file_3dm, config, args, cursor, hb_lists,
                   first_run, hb_model>>

NextConfig == CheckRad \/ ImportGrids

SpecConfig == InitConfig /\ [][NextConfig]_vars

(***************************************************************************)
(* Claims on the checks of the config.                                     *)
(***************************************************************************)
\* The identifiers the layers of the config request.
Requested == {config.layers[i].radiance_material : i \in 1..Len(config.layers)} \ {NoKey}

RadChecked == query.fn = "check_rad" /\ HasAnswer

\* C15: with a material table loaded from sources.radiance_material,
\* check_rad raises ValueError exactly when some layer requests an identifier
\* that the table does not hold, and returns True when every requested
\* identifier is in the table, wherever the requesting layers stand in the
\* order of the layers.
C15_ValueErrorIffMissing ==
    (RadChecked /\ config.sources = "file") =>
        IF Requested \subseteq config.materials
        THEN answer.raised = "none" /\ answer.value
        ELSE answer.raised = "ValueError"

\* C16: check_rad raises KeyError only for a config where some layer requests
\* a radiance material and there is no sources.radiance_material; a config
\* whose layers request none is accepted (True) without sources.
C16_KeyErrorOnlyIfRequested ==
    RadChecked =>
        /\ answer.raised = "KeyError" => (Requested # {} /\ config.sources = "absent")
        /\ (Requested = {} /\ config.sources = "absent")
               => (answer.raised = "none" /\ answer.value)

\* C17: check_grid_controls returns True if and only if every grid control is
\* a float, and when some control is no float import_grids warns and takes
\* the default controls [1.0, 1.0, 0.0] in place of the configured ones.
C17_GridControlsChecked ==
    (query.fn = "import_grids" /\ HasAnswer /\ config.HB_grid # ""
     /\ config.grid_controls # <<>>) =>
        LET floats == \A i \in 1..Len(config.grid_controls) :
                          config.grid_controls[i].type = "float"
        IN  /\ answer.checked <=> floats
            /\ ~floats =>
                  /\ answer.warned # {}
                  /\ answer.grid_controls =
                        <<[type |-> "float", value |-> 1], [type |-> "float", value |-> 1],
                          [type |-> "float", value |-> 0]>>

(***************************************************************************)
(* Claims on the polygons of the Geometry Converter.                       *)
(***************************************************************************)
\* C18: to_face3d never returns a polygon of zero area: every Face3D of the
\* returned list has a boundary of non-zero area.
C18_NoZeroAreaFace ==
    (Converted /\ lb_face.raised = "none") =>
        \A k \in 1..Len(lb_face.faces) : area(lb_face.faces[k].boundary) # 0

\* The Brep to_face3d hands to brep_to_face3d: planar, one face, not solid;
\* its face has a mesh.
PlanarSingleFace ==
    /\ rh_geo.geo.type = "Brep" /\ ~rh_geo.geo.IsSolid
    /\ Len(rh_geo.geo.Faces) = 1 /\ check_planarity(rh_geo.geo, rh_geo.tolerance)
    /\ rh_geo.geo.Faces[1].mesh.ok

\* Some edge is not linear, or the face mesh has 3 or 4 vertices.
CurvedOrSimple ==
    rh_geo.geo.curved \/ Len(rh_geo.geo.Faces[1].mesh.Vertices) \in {3, 4}

\* The return statements of the stitched path of brep_to_face3d.
StitchedPaths == {"curved", "simple"}

OnePolyline ==
    /\ PlanarSingleFace /\ ~CurvedOrSimple
    /\ Len(rh_geo.geo.joined) = 1

RECURSIVE Survivors(_, _, _)
\* The vertices from position i on that lie further than the tolerance from
\* the vertex before them on the loop, the last vertex standing before the
\* first.
Survivors(v, tolerance, i) ==
    IF i > Len(v) THEN <<>>
    ELSE LET before == IF i = 1 THEN v[Len(v)] ELSE v[i - 1]
         IN  (IF \/ Abs(v[i][1] - before[1]) > tolerance
                 \/ Abs(v[i][2] - before[2]) > tolerance
              THEN <<v[i]>> ELSE <<>>) \o Survivors(v, tolerance, i + 1)

\* C20: on the analytic path of brep_to_face3d with exactly one joined
\* polyline, ValueError is raised and nothing returned when fewer than 3
\* points survive the deduplication; otherwise exactly one Face3D is
\* returned, its boundary the surviving points and without holes.
C20_OnePolylineFaceOrValueError ==
    (Converted /\ OnePolyline) =>
        LET kept == Survivors(rh_geo.geo.joined[1].vertices, rh_geo.tolerance, 1)
        IN  IF Len(kept) < 3
            THEN lb_face.raised = "ValueError" /\ lb_face.faces = <<>>
            ELSE /\ lb_face.raised = "none"
                 /\ lb_face.faces = <<[boundary |-> kept, holes |-> <<>>]>>

\* The single loop is a closed square of side 1 and the tolerance is 1: no
\* vertex survives and ValueError was raised.
C20_Witness ==
    /\ Converted /\ OnePolyline /\ rh_geo.tolerance = 1
    /\ rh_geo.geo.joined = <<ClosedLoop(SquareVerts(1, 2))>>
    /\ lb_face.raised = "ValueError" /\ lb_face.path = "one_polyline"

\* brep_to_face3d took its analytic path and join_segments returned more
\* than one item.
SeveralItems ==
    /\ PlanarSingleFace /\ ~CurvedOrSimple
    /\ Len(rh_geo.geo.joined) > 1

\* An item of join_segments that is no closed loop: a segment left over, or a
\* polyline whose last vertex is not its first.
IsOpenChain(item) ==
    \/ ~isinstance_Polyline3D(item)
    \/ item.vertices[1] # item.vertices[Len(item.vertices)]

\* C21: on the analytic path of brep_to_face3d with more than one joined
\* item, when any item, at any position, is an open chain the function
\* returns the mesh faces of the Brep and builds no Face3D from the loops.
C21_OpenChainIsMeshed ==
    (Converted /\ SeveralItems
     /\ \E i \in 1..Len(rh_geo.geo.joined) : IsOpenChain(rh_geo.geo.joined[i])) =>
        /\ lb_face = brep_to_mesh_to_face3d(rh_geo.geo, {})
        /\ lb_face.path # "holes"

\* brep_to_face3d returned the Face3D it built of the ranked loops.
EmittedWithHoles ==
    /\ Converted /\ SeveralItems
    /\ lb_face.raised = "none" /\ lb_face.path = "holes"

\* C22: when brep_to_face3d emits a Face3D with holes, its boundary is a
\* joined loop of maximum area and its holes are all the other joined loops,
\* each once (the loops after deduplication of their vertices).
C22_LargestLoopIsBoundary ==
    EmittedWithHoles =>
        LET loops == rh_geo.geo.joined
            pts(i) == Survivors(loops[i].vertices, rh_geo.tolerance, 1)
            face == lb_face.faces[1]
        IN  /\ Len(lb_face.faces) = 1
            /\ \E b \in 1..Len(loops) :
                  /\ \A j \in 1..Len(loops) :
                        area(loops[j].vertices) <= area(loops[b].vertices)
                  /\ face.boundary = pts(b)
                  /\ Len(face.holes) = Len(loops) - 1
                  /\ \E h \in [1..Len(face.holes) -> (1..Len(loops)) \ {b}] :
                        /\ \A k, l \in 1..Len(face.holes) : h[k] = h[l] => k = l
                        /\ \A k \in 1..Len(face.holes) : face.holes[k] = pts(h[k])

\* The small square came first and the large one second: the large one is
\* the boundary and the small one the only hole.
C22_Witness ==
    /\ EmittedWithHoles /\ rh_geo.tolerance = 0
    /\ rh_geo.geo.joined = <<ClosedLoop(SquareVerts(1, 2)), ClosedLoop(SquareVerts(0, 5))>>
    /\ lb_face.faces = <<Face3D(<<<<5, 0>>, <<5, 5>>, <<0, 5>>, <<0, 0>>>>,
                                <<<<<<2, 1>>, <<2, 2>>, <<1, 2>>, <<1, 1>>>>>>)>>

SolidBrep == rh_geo.geo.type = "Brep" /\ rh_geo.geo.IsSolid

\* The Face3Ds of the faces of a mesh, one of each face on its own vertices.
MeshFacesOf(mesh) ==
    [j \in 1..Len(mesh.Faces) |->
        [boundary |-> [k \in 1..Len(mesh.Faces[j]) |-> mesh.Vertices[mesh.Faces[j][k]]],
         holes |-> <<>>]]

\* The mesh of a face can be stitched: its faces form a polyface whose naked
\* edges join into a first item of 3 vertices or more.
Stitches(mesh) ==
    /\ mesh.ok /\ mesh.polyface_ok /\ mesh.naked_joined # <<>>
    /\ Len(mesh.naked_joined[1].vertices) >= 3

\* What the rule for solids gives for face i: the mesh faces of a non-planar
\* face, the one stitched boundary of a planar face.
SolidRule(i) ==
    LET mesh == rh_geo.geo.Faces[i].mesh
    IN  IF ~rh_geo.geo.Surfaces[i] THEN MeshFacesOf(mesh)
        ELSE <<[boundary |-> mesh.naked_joined[1].vertices, holes |-> <<>>]>>

\* Face i of the Brep has a mesh and, when it is planar, the mesh stitches.
SolidFaceConverts(i) ==
    /\ rh_geo.geo.Faces[i].mesh.ok
    /\ rh_geo.geo.Surfaces[i] => Stitches(rh_geo.geo.Faces[i].mesh)

SplitBrep ==
    rh_geo.geo.type = "Brep" /\ ~rh_geo.geo.IsSolid /\ Len(rh_geo.geo.Faces) > 1

\* Face i of the Brep as a Brep of its own, with its own planarity: its edges
\* are curved when the edges of its mesh are, and join into the loops the
\* naked edges of its mesh join into.
FaceOnItsOwn(i) ==
    Brep(FALSE, <<rh_geo.geo.Faces[i]>>, <<rh_geo.geo.Surfaces[i]>>,
         rh_geo.geo.Faces[i].topology_curved, rh_geo.geo.Faces[i].mesh.naked_joined)

\* A polygon whatever closing or repeated vertex its loops are listed with.
Polygon(face) ==
    [boundary |-> Survivors(face.boundary, rh_geo.tolerance, 1),
     holes |-> [k \in 1..Len(face.holes) |->
                   Survivors(face.holes[k], rh_geo.tolerance, 1)]]

\* C24: for a non-solid Brep of several faces to_face3d returns, in face
\* order, the polygons the single-face rule gives for each face taken on its
\* own (and raises where the rule raises for the first such face).
C24_SplitFacesFollowSingleFaceRule ==
    (Converted /\ SplitBrep) =>
        LET each == concat_results(
                        [i \in 1..Len(rh_geo.geo.Faces) |->
                            to_face3d(FaceOnItsOwn(i), rh_geo.tolerance, FALSE)],
                        "each", {})
        IN  /\ lb_face.raised = each.raised
            /\ [k \in 1..Len(lb_face.faces) |-> Polygon(lb_face.faces[k])]
                   = [k \in 1..Len(each.faces) |-> Polygon(each.faces[k])]

(***************************************************************************)
(* Claims on the sensor grids.                                             *)
(***************************************************************************)
GridsImported == query.fn = "import_grids" /\ HasAnswer /\ config.HB_grid # ""

\* C25: import_grids makes at most one SensorGrid of an object of the grid
\* layer, of that object's own geometry; an object that is skipped, or is
\* neither a Brep nor a Mesh, is passed over without a grid, never with the
\* mesh of an object processed before it.
C25_GridOfOwnGeometry ==
    GridsImported =>
        /\ answer.raised = "none"
        /\ \A k, l \in 1..Len(answer.hb_grids) :
              answer.hb_grids[k].obj = answer.hb_grids[l].obj => k = l
        /\ \A k \in 1..Len(answer.hb_grids) :
              \E o \in 1..Len(file_3dm.Objects) :
                 /\ file_3dm.Objects[o].Id = answer.hb_grids[k].obj
                 /\ file_3dm.Objects[o].Geometry.type \in {"Brep", "Mesh"}
                 /\ file_3dm.Objects[o].Geometry.type = "Mesh" =>
                       /\ answer.hb_grids[k].mesh3d.Vertices
                              = file_3dm.Objects[o].Geometry.mesh.Vertices
                       /\ answer.hb_grids[k].mesh3d.Faces
                              = file_3dm.Objects[o].Geometry.mesh.Faces

(***************************************************************************)
(* model.py: import_3dm with a config of the 'layers' schema. The config   *)
(* is [layers], a function from the listed layer names to their entries    *)
(* [include_child_layers] ("true", "false" or NoKey). The main loop is     *)
(* translated from model.py; import_objects_with_config is called there    *)
(* and defined in no file of the source tree: it is modelled on the        *)
(* specification (a layer entry has an optional child-layer-inclusion      *)
(* flag) as giving the default Faces of the objects of the layer and, when *)
(* the flag is set, of the layers below it.                                *)
(***************************************************************************)
\* config.py's check_parent_in_config
check_parent_in_config(cfg, layer_name, parent_layer_name) ==
    /\ parent_layer_name \in DOMAIN cfg.layers
    /\ cfg.layers[parent_layer_name].include_child_layers # NoKey
    /\ cfg.layers[parent_layer_name].include_child_layers = "true"

import_objects_with_config(file, layer, tolerance, cfg, stream, drawn) ==
    LET below == {i \in 1..Len(file.Layers) :
                     layer.Name \in Range(split(file.Layers[i].FullPath))}
        indexes == IF cfg.layers[layer.Name].include_child_layers = "true"
                   THEN layer_indexes(SelectIdx(file.Layers, below))
                   ELSE <<layer.Index>>
    IN  import_objects_from(helper_filter_objects_by_layer_index(file, indexes),
                            layer, tolerance, stream, drawn, 1)

\* The branch of the main loop a layer takes: "ignored" (not in the config
\* and not on), "config", "skipped" (its parent is in the config with child
\* layers), "default", or "none" when no branch applies.
route_of(file, cfg, layer) ==
    LET rhino_visible_layer_names ==
            {visible_layers(file)[i].Name : i \in 1..Len(visible_layers(file))}
    IN  IF /\ layer.Name \notin DOMAIN cfg.layers
           /\ layer.Name \notin rhino_visible_layer_names
        THEN "ignored"
        ELSE IF layer.Name \in DOMAIN cfg.layers THEN "config"
        ELSE IF check_parent_in_config(cfg, layer.Name, child_parent_dict(file)[layer.Name])
        THEN "skipped"
        ELSE IF layer.Name \in rhino_visible_layer_names THEN "default"
        ELSE "none"

\* The body of the main loop for one layer: what its branch imports.
import_config_layer(file, cfg, layer, route, tolerance, stream, drawn) ==
    IF route = "config"
    THEN import_objects_with_config(file, layer, tolerance, cfg, stream, drawn)
    ELSE IF route = "default"
    THEN import_objects(file, layer, tolerance, stream, drawn)
    ELSE [raised |-> "none", made |-> <<>>, draws |-> 0, warned |-> FALSE]

RECURSIVE import_config_layers(_, _, _, _, _, _, _)
\* for layer in rhino3dm_file.Layers: ... (config is provided); one holds
\* the elements of the layers before position i and the draws of the last.
import_config_layers(file, cfg, tolerance, stream, drawn, i, one) ==
    IF one.raised # "none" THEN Model(one.raised, <<>>)
    ELSE IF i > Len(file.Layers) THEN Model("none", one.made)
    ELSE import_config_layers(
             file, cfg, tolerance, stream, drawn + one.draws, i + 1,
             [import_config_layer(file, cfg, file.Layers[i],
                                  route_of(file, cfg, file.Layers[i]), tolerance,
                                  stream, drawn + one.draws)
                 EXCEPT !.made = one.made \o @])

\* import_3dm(path, config_path=...)
import_3dm_config(file, cfg, tolerance, stream) ==
    IF visible_layers(file) = <<>> THEN Model("ValueError", <<>>)
    ELSE import_config_layers(file, cfg, tolerance, stream, 0, 1,
                              [raised |-> "none", made |-> <<>>, draws |-> 0,
                               warned |-> FALSE])

\* config.py's face3d_to_hb_object. The entry of the layer is
\* [honeybee_face_object, radiance_material]; the config has sources and
\* materials as for check_rad. An element made here is [kind, identifier,
\* display_name, geometry, modifier]. In the shade branch the modifier is
\* assigned to hb_door, which no statement of that branch binds.
face3d_to_hb_object(cfg, face_obj, name, layer_name, uuid) ==
    LET entry == cfg.layers[layer_name]
        identifier == clean_string(obj_name(name, layer_name, uuid))
        made(kind) == [kind |-> kind, identifier |-> identifier,
                       display_name |-> identifier, geometry |-> face_obj,
                       modifier |-> entry.radiance_material]
        lists(raised, hb_apertures, hb_shades, hb_doors) ==
            [raised |-> raised, hb_apertures |-> hb_apertures,
             hb_shades |-> hb_shades, hb_doors |-> hb_doors]
        \* mat_to_dict(config['sources']['radiance_material'])[...]
        lookup == IF cfg.sources = "absent" THEN "KeyError"
                  ELSE IF cfg.sources # "file" THEN "TypeError"
                  ELSE IF entry.radiance_material \notin cfg.materials THEN "KeyError"
                  ELSE "none"
    IN  IF entry.honeybee_face_object \notin {"aperture", "door", "shade"}
        THEN lists("none", <<>>, <<>>, <<>>)
        \* the identifier of an Aperture, Door or Shade may not be empty
        ELSE IF identifier = <<>> THEN lists("AssertionError", <<>>, <<>>, <<>>)
        ELSE IF entry.radiance_material = NoKey
        THEN lists("none",
                   IF entry.honeybee_face_object = "aperture"
                   THEN <<made("Aperture")>> ELSE <<>>,
                   IF entry.honeybee_face_object = "shade" THEN <<made("Shade")>> ELSE <<>>,
                   IF entry.honeybee_face_object = "door" THEN <<made("Door")>> ELSE <<>>)
        ELSE IF lookup # "none" THEN lists(lookup, <<>>, <<>>, <<>>)
        ELSE IF entry.honeybee_face_object = "aperture"
        THEN lists("none", <<made("Aperture")>>, <<>>, <<>>)
        ELSE IF entry.honeybee_face_object = "door"
        THEN lists("none", <<>>, <<>>, <<made("Door")>>)
        ELSE lists("NameError", <<>>, <<>>, <<>>)

(***************************************************************************)
(* SpecModel: import_3dm with a config on a scene of three nested layers,  *)
(* A, A::B and A::B::C, each holding one mesh; or face3d_to_hb_object on   *)
(* the Face3D of a square, for an object of the layer "L".                 *)
(***************************************************************************)

InitModel ==
    /\ \/ /\ \E visible \in [1..3 -> BOOLEAN] :
                file_3dm = [Layers |-> [i \in 1..3 |->
                                           RhLayer(NestedPaths[i], visible[i], i - 1)],
                            Objects |-> [i \in 1..3 |->
                                            RhObject(i, i - 1, TRUE, <<"o", ToString(i)>>,
                                                     Mesh(QuadMesh))]]
          /\ \E listed \in SUBSET {"A", "B", "C"} :
                config \in [layers : [listed -> [include_child_layers :
                                                    {NoKey, "true", "false"}]]]
          /\ query = [NoQuery EXCEPT !.fn = "import_3dm"]
       \/ /\ file_3dm = NoFile
          /\ config \in [layers : [{"L"} -> [honeybee_face_object :
                                                {"aperture", "door", "shade"},
                                            radiance_material : {NoKey, "m1", "m2"}]],
                          sources : {"absent", "file", "no file"},
                          materials : {{"m1"}, {"m1", "m2"}}]
          /\ query = [NoQuery EXCEPT !.fn = "face3d_to_hb_object", !.layer_name = "L"]
    /\ answer = NoAnswer
    /\ args = NoArgs /\ cursor = NoCursor
    /\ hb_lists = NoLists /\ first_run = NoLists /\ hb_model = NoModel
    /\ GeomIdle

\* hb_model = import_3dm(path, config_path=...); answer keeps the branch
\* each layer took in the main loop.
Import3dmConfig ==
    /\ answer = NoAnswer /\ query.fn = "import_3dm"
    /\ hb_model' = import_3dm_config(file_3dm, config, args.tolerance, 1)
    /\ answer' = [raised |-> hb_model'.raised,
                  routes |-> [i \in 1..Len(file_3dm.Layers) |->
                                 IF hb_model'.raised = "ValueError" THEN "none"
                                 ELSE route_of(file_3dm, config, file_3dm.Layers[i])]]
    /\ UNCHANGED <<rh_geo, lb_face, file_3dm, query, config, args, cursor, hb_lists,
                   first_run>>

\* hb_apertures, hb_shades, hb_doors = face3d_to_hb_object(config, face_obj,
\* name, layer_name), for a named and for an unnamed object.
Face3dToHbObject ==
    /\ answer = NoAnswer /\ query.fn = "face3d_to_hb_object"
    /\ \E name \in {<<>>, <<"w">>, <<"#">>} :
          answer' = face3d_to_hb_object(config, Face3D(SquareVerts(0, 2), <<>>), name,
                                        query.layer_name, uuid4(1, 1))
    /\ UNCHANGED <<rh_geo, lb_face, file_3dm, query, config, args, cursor, hb_lists,
                   first_run, hb_model>>

NextModel == Import3dmConfig \/ Face3dToHbObject

SpecModel == InitModel /\ [][NextModel]_vars

(***************************************************************************)
(* Claims on import_3dm with a config.                                     *)
(***************************************************************************)
Listed(i) == file_3dm.Layers[i].Name \in DOMAIN config.layers

\* The layer right above layer i is in the config with child layers included
\* (layer i is the child of layer i - 1 in these scenes).
ParentIncludesChildren(i) ==
    /\ i > 1 /\ Listed(i - 1)
    /\ config.layers[file_3dm.Layers[i - 1].Name].include_child_layers = "true"

\* Layer i and the layers above it are on.
LayerIsOn(i) == \A j \in 1..i : file_3dm.Layers[j].Visible

\* C26: in import_3dm with a config, a layer that is on and not in the config
\* is skipped as already imported if and only if its parent layer is in the
\* config with include_child_layers true, at any depth of the hierarchy, and
\* is imported with default settings otherwise; a layer that is off and not
\* in the config is never imported.
C26_SkippedIffParentIncludes ==
    (query.fn = "import_3dm" /\ HasAnswer /\ answer.raised = "none") =>
        \A i \in 1..Len(file_3dm.Layers) :
            ~Listed(i) =>
                IF ~LayerIsOn(i) THEN answer.routes[i] = "ignored"
                ELSE IF ParentIncludesChildren(i) THEN answer.routes[i] = "skipped"
                ELSE answer.routes[i] = "default"

\* face3d_to_hb_object has returned or raised for a layer whose material, if
\* it names one, is in the table of the material file, and for a name that
\* makes an identifier.
ObjectMade ==
    /\ query.fn = "face3d_to_hb_object" /\ HasAnswer
    /\ answer.raised # "AssertionError"
    /\ config.layers["L"].radiance_material # NoKey =>
          /\ config.sources = "file"
          /\ config.layers["L"].radiance_material \in config.materials

\* C27: for each honeybee_face_object among aperture, door and shade, with or
\* without a radiance_material, face3d_to_hb_object returns exactly one
\* element of that kind in the list of that kind, the other two lists empty,
\* with the looked-up modifier on that element when a material is named; it
\* does not raise.
C27_OneElementOfTheKind ==
    ObjectMade =>
        LET entry == config.layers["L"]
            list == CASE entry.honeybee_face_object = "aperture" -> answer.hb_apertures
                      [] entry.honeybee_face_object = "door" -> answer.hb_doors
                      [] entry.honeybee_face_object = "shade" -> answer.hb_shades
            kind == CASE entry.honeybee_face_object = "aperture" -> "Aperture"
                      [] entry.honeybee_face_object = "door" -> "Door"
                      [] entry.honeybee_face_object = "shade" -> "Shade"
        IN  /\ answer.raised = "none"
            /\ Len(list) = 1 /\ list[1].kind = kind
            /\ Len(answer.hb_apertures) + Len(answer.hb_doors) + Len(answer.hb_shades) = 1
            /\ entry.radiance_material # NoKey =>
                  list[1].modifier = entry.radiance_material

(***************************************************************************)
(* Claims on import_faces: objects without a mesh, layers of other roles.  *)
(***************************************************************************)
\* The elements of the four lists of the run that were made of one object.
ElementsOf(id) ==
    SelectSeq(hb_lists.hb_faces \o hb_lists.hb_shades \o hb_lists.hb_apertures
                  \o hb_lists.hb_doors,
              LAMBDA hb : hb.obj = id)

\* The passes of "for obj in objects" the run has made so far.
Passed ==
    SubSeq(worklist(file_3dm, config, args.visibility), 1, cursor.pos - 1)

NoMeshFound(obj) == to_face3d(obj.Geometry, args.tolerance, FALSE).raised = "AttributeError"

\* C28: at every point of a run of import_faces, an object for which to_face3d
\* raised AttributeError has a warning and no element in any list, the run has
\* not ended with that exception, and every other object the run has passed,
\* before or after it, on its layer or a later one, has all its elements in
\* the lists.
C28_NoMeshIsSkippedWithWarning ==
    cursor.call = "import_faces" /\ cursor.run \in {1, 2} =>
        /\ cursor.raised # "AttributeError"
        /\ \A k \in 1..Len(Passed) :
              LET obj == Passed[k].obj
                  lb_faces == to_face3d(obj.Geometry, args.tolerance, FALSE)
              IN  /\ NoMeshFound(obj) =>
                        /\ obj.Id \in Range(cursor.warned)
                        /\ ElementsOf(obj.Id) = <<>>
                  /\ lb_faces.raised = "none" /\ cursor.raised = "none" =>
                        /\ obj.Id \notin Range(cursor.warned)
                        /\ Len(ElementsOf(obj.Id)) = Len(lb_faces.faces)
                        /\ \A n \in 1..Len(lb_faces.faces) :
                              ElementsOf(obj.Id)[n].geometry = lb_faces.faces[n]

\* A run has passed a mesh, then an extrusion without a mesh, or the
\* extrusion first: the warning is issued and the two Faces of the mesh are
\* in the list.
C28_Witness ==
    /\ cursor.call = "import_faces" /\ cursor.run = 1 /\ cursor.raised = "none"
    /\ Len(Passed) = 2
    /\ NoMeshFound(Passed[1].obj) /\ ~NoMeshFound(Passed[2].obj)
    /\ cursor.warned = <<Passed[1].obj.Id>>
    /\ Len(hb_lists.hb_faces) = 2 /\ hb_lists.hb_faces[1].obj = Passed[2].obj.Id

(***************************************************************************)
(* SpecVerts: remove_dup_vertices on every list of up to MaxVerts points   *)
(* of a 3 by 2 grid whose columns are one unit and whose rows are two      *)
(* units apart, with every tolerance of the bound.                         *)
(***************************************************************************)
InitVerts ==
    /\ args \in [vertices : SeqsOf((0..2) \X {0, 2}, 0, MaxVerts),
                 tolerance : Tolerances]
    /\ query = [NoQuery EXCEPT !.fn = "remove_dup_vertices"]
    /\ answer = NoAnswer
    /\ file_3dm = NoFile /\ config = NoConfig /\ cursor = NoCursor
    /\ hb_lists = NoLists /\ first_run = NoLists /\ hb_model = NoModel
    /\ GeomIdle

\* pts = remove_dup_vertices(vertices, tolerance)
RemoveDupVertices ==
    /\ answer = NoAnswer /\ query.fn = "remove_dup_vertices"
    /\ answer' = [raised |-> "none",
                  objects |-> remove_dup_vertices(args.vertices, args.tolerance)]
    /\ UNCHANGED <<rh_geo, lb_face, file_3dm, query, config, args, cursor, hb_lists,
                   first_run, hb_model>>

NextVerts == RemoveDupVertices

SpecVerts == InitVerts /\ [][NextVerts]_vars

(***************************************************************************)
(* Claims on remove_dup_vertices.                                          *)
(***************************************************************************)
VertsReturned == query.fn = "remove_dup_vertices" /\ HasAnswer

\* out is made of the vertices of some positions of v, in their order.
IsSubSequence(out, v) ==
    \E K \in SUBSET (1..Len(v)) : out = SelectIdx(v, K)

\* No vertex of the loop is equal within the tolerance to the next one, the
\* first being the next of the last.
NoAdjacentDuplicate(out, tolerance) ==
    \A i \in 1..Len(out) :
        LET next == IF i = Len(out) THEN 1 ELSE i + 1
        IN  next # i => ~is_equivalent(out[i], out[next], tolerance)

\* Three vertices of v of which no two are equal within the tolerance.
ThreeApart(v, tolerance) ==
    \E i, j, k \in 1..Len(v) :
        /\ ~is_equivalent(v[i], v[j], tolerance)
        /\ ~is_equivalent(v[j], v[k], tolerance)
        /\ ~is_equivalent(v[i], v[k], tolerance)

\* C29: for every vertex list and tolerance, what remove_dup_vertices returns
\* is a sub-sequence of the list in the order of the list, has no two
\* cyclically adjacent vertices equal within the tolerance, and has at least
\* 3 vertices when the list has 3 pairwise non-equivalent vertices.
C29_NoAdjacentDuplicateLeft ==
    VertsReturned =>
        /\ IsSubSequence(answer.objects, args.vertices)
        /\ NoAdjacentDuplicate(answer.objects, args.tolerance)
        /\ ThreeApart(args.vertices, args.tolerance) => Len(answer.objects) >= 3

\* The layer an element was made of an object of.
LayerOfElement(hb) == LayerOfIndex(file_3dm.Objects[hb.obj].LayerIndex)

\* The layer is tied to the grid, room or view role.
OtherRole(i) ==
    \E key \in {"HB_grid", "HB_room", "HB_view"} :
        config.HB_layers[key] = file_3dm.Layers[i].Name

\* The class of the elements of a layer by the role the config ties it to.
KindByRole(i) ==
    IF \E key \in Range(HBKeys) : config.HB_layers[key] = file_3dm.Layers[i].Name
    THEN layer_to_hb_object(hb_layer_from_layer(config, file_3dm.Layers[i].Name)).module
    ELSE "Face"

OfOwnKind(list, kind) ==
    \A k \in 1..Len(list) :
        /\ list[k].kind = kind
        /\ KindByRole(LayerOfElement(list[k])) = kind

\* C30: in import_faces with an HB_layers config, at every point of the run,
\* no element of the four lists was made of an object on a layer tied to the
\* grid, room or view role or on a descendant of such a layer at any depth,
\* and every element is of the class of its list, the class of the role its
\* layer is tied to.
C30_OtherRolesNeverFaces ==
    cursor.call = "import_faces" /\ config.given =>
        /\ \A hb \in Range(hb_lists.hb_faces \o hb_lists.hb_shades
                           \o hb_lists.hb_apertures \o hb_lists.hb_doors) :
              /\ ~OtherRole(LayerOfElement(hb))
              /\ \A a \in 1..Len(file_3dm.Layers) :
                    IsAncestor(a, LayerOfElement(hb)) => ~OtherRole(a)
        /\ OfOwnKind(hb_lists.hb_faces, "Face")
        /\ OfOwnKind(hb_lists.hb_shades, "Shade")
        /\ OfOwnKind(hb_lists.hb_apertures, "Aperture")
        /\ OfOwnKind(hb_lists.hb_doors, "Door")

====
